---- MODULE Spec2Model ----
(***************************************************************************)
(* The per-request engine-process lifecycle of the chess analysis service. *)
(*                                                                         *)
(* engine_service/main.py: analyze_position is an asyncio coroutine.  The  *)
(* code between two awaits runs atomically, so one action of this model is *)
(* one resumption of the coroutine: it starts where an await completes     *)
(* (returns, raises an Exception, or raises CancelledError) and runs to    *)
(* the next await or to the end of the call.  pc names the await at which  *)
(* the call is suspended.                                                  *)
(*                                                                         *)
(* The engine library and the engine process are the environment: an       *)
(* awaited engine command may return, raise, or be cancelled, and the      *)
(* process may exit at any time.                                           *)
(***************************************************************************)
EXTENDS Integers, Sequences, FiniteSets

\* ---------------------------------------------------------------- bounds
\* The engine reports centipawn scores in -MaxCp..MaxCp.
MaxCp == 1
\* The engine reports mate distances in -MaxMateDist..MaxMateDist.
MaxMateDist == 2
\* The engine reports principal variations of at most MaxPvLen moves.
MaxPvLen == 2

\* ----------------------------------------------------- program constants
\* AnalysisRequest.depth: Field(15, ge=1, le=30)
MinDepth == 1
MaxDepth == 30
\* AnalysisRequest.uci_elo: Field(None, ge=1350, le=2850)
MinElo == 1350
MaxElo == 2850
\* score(mate_score=100000)
MateScore == 100000

\* ------------------------------------------------------------ the inputs
Calls == {1}

\* Optional values: None is the empty sequence, a value v is <<v>>.
None == <<>>
Some(v) == <<v>>

NoMove == "None"
Moves == {"e2e4", "e7e5"}

\* A FEN string, as the sequence of its whitespace-separated fields.  The
\* placement field is named by what it holds: a position of one of four
\* kinds (eight ranks), or a placement of seven ranks.  Only the first two
\* fields are modelled; python-chess defaults the fields that are missing.
Placements == {"normal", "mate_in_1", "checkmate", "stalemate", "seven_ranks"}
TurnTokens == {"w", "b", "x"}
Fens == {<<>>} \cup {<<p>> : p \in Placements}
            \cup {<<p, t>> : p \in Placements, t \in TurnTokens}

DepthInputs == {MinDepth - 1, MinDepth, MaxDepth, MaxDepth + 1}
EloInputs == {None, Some(MinElo - 1), Some(MinElo), Some(MaxElo + 1)}

Requests == [fen : Fens, depth : DepthInputs, uci_elo : EloInputs]
NoRequest == [fen |-> <<>>, depth |-> 0, uci_elo |-> None]

\* ------------------------------------------------------------ validation
\* ValidationErrors without the bounds ge=1350, le=2850 on uci_elo.
ValidationErrorsNoEloRange(r) ==
    (IF Len(r.fen) = 0 THEN {"fen"} ELSE {})
    \cup (IF r.depth < MinDepth \/ r.depth > MaxDepth THEN {"depth"} ELSE {})

\* ValidationErrors without the ceiling le=30 on depth.
ValidationErrorsNoCeiling(r) ==
    (IF Len(r.fen) = 0 THEN {"fen"} ELSE {})
    \cup (IF r.depth < MinDepth THEN {"depth"} ELSE {})
    \cup (IF r.uci_elo # None
             /\ (r.uci_elo[1] < MinElo \/ r.uci_elo[1] > MaxElo)
          THEN {"uci_elo"} ELSE {})

\* The fields pydantic rejects: fen blank after strip, depth outside
\* ge=1..le=30, uci_elo given and outside ge=1350..le=2850.
ValidationErrors(r) ==
    (IF Len(r.fen) = 0 THEN {"fen"} ELSE {})
    \cup (IF r.depth < MinDepth \/ r.depth > MaxDepth THEN {"depth"} ELSE {})
    \cup (IF r.uci_elo # None
             /\ (r.uci_elo[1] < MinElo \/ r.uci_elo[1] > MaxElo)
          THEN {"uci_elo"} ELSE {})

\* chess.Board(fen): the board, or ParseError where set_fen raises ValueError
\* (empty fen, a placement without eight ranks, a turn that is not w or b).
\* A missing turn field defaults to White.
ParseError == [ok |-> FALSE, kind |-> "error", turn |-> "w"]
ParseBoard(fen) ==
    IF Len(fen) = 0 THEN ParseError
    ELSE IF fen[1] = "seven_ranks" THEN ParseError
    ELSE IF Len(fen) >= 2 /\ fen[2] \notin {"w", "b"} THEN ParseError
    ELSE [ok |-> TRUE, kind |-> fen[1],
          turn |-> IF Len(fen) >= 2 THEN fen[2] ELSE "w"]

NoBoard == [ok |-> FALSE, kind |-> "none", turn |-> "w"]
Terminal(b) == b.kind \in {"checkmate", "stalemate"}

\* ------------------------------------------------------------ the scores
\* python-chess Score objects: Cp(v), Mate(v), MateGiven.
Cp(v) == [t |-> "cp", v |-> v]
Mate(v) == [t |-> "mate", v |-> v]
MateGiven == [t |-> "mategiven", v |-> 0]
PovScore(rel, turn) == [relative |-> rel, turn |-> turn]

\* Score.__neg__
Neg(s) ==
    CASE s.t = "cp" -> Cp(-s.v)
      [] s.t = "mate" -> (IF s.v = 0 THEN MateGiven ELSE Mate(-s.v))
      [] OTHER -> Mate(0)

\* PovScore.white(): the score from White's point of view.
White(pov) == IF pov.turn = "w" THEN pov.relative ELSE Neg(pov.relative)

\* Score.score(mate_score=ms), as an optional integer; ms is optional too.
ScoreOf(s, ms) ==
    CASE s.t = "cp" -> Some(s.v)
      [] s.t = "mate" ->
            (IF ms = None THEN None
             ELSE IF s.v > 0 THEN Some(ms[1] - s.v)
             ELSE Some(-ms[1] - s.v))
      [] OTHER -> ms

\* Line 82 with the bug of reading the relative score as White's.
ExtractScoreRelative(info) ==
    IF info.score # None
    THEN ScoreOf(info.score[1].relative, Some(MateScore))
    ELSE None

\* score = score_obj.white().score(mate_score=100000) if score_obj else None
ExtractScore(info) ==
    IF info.score # None
    THEN ScoreOf(White(info.score[1]), Some(MateScore))
    ELSE None

\* best_move = pv[0].uci() if pv else None
ExtractBestMove(info) == IF Len(info.pv) > 0 THEN info.pv[1] ELSE NoMove

\* ------------------------------------------------------------ the engine
PVs == UNION {[1..n -> Moves] : n \in 0..MaxPvLen}
NoInfo == [score |-> None, pv |-> <<>>]

\* What engine.analyse may return for a board: the score is relative to the
\* side to move.  A position without legal moves has no principal line; a
\* checkmated side is reported mate 0, a stalemate cp 0, and a position one
\* move from mate is reported mate 1.
EngineScores(b) ==
    CASE b.kind = "checkmate" -> {Some(PovScore(Mate(0), b.turn))}
      [] b.kind = "stalemate" -> {Some(PovScore(Cp(0), b.turn))}
      [] b.kind = "mate_in_1" -> {Some(PovScore(Mate(1), b.turn))}
      [] OTHER ->
            {None}
            \cup {Some(PovScore(Cp(v), b.turn)) : v \in -MaxCp..MaxCp}
            \cup {Some(PovScore(Mate(v), b.turn)) :
                    v \in (-MaxMateDist..MaxMateDist) \ {0}}
EngineInfos(b) ==
    [score : EngineScores(b), pv : IF Terminal(b) THEN {<<>>} ELSE PVs]

\* What engine.play may return as result.move.
EnginePlays(b) == IF Terminal(b) THEN {NoMove} ELSE Moves \cup {NoMove}

\* ------------------------------------------------------------- the state
VARIABLES
    pc,          \* per call: the await at which it is suspended
    req,         \* per call: the request
    board,       \* per call: local board
    session,     \* per call: the engine handle (0: none)
    proc,        \* per call: its engine process: none, running, exited
    info,        \* per call: local info
    log,         \* per call: the engine operations issued, in order
    faults,      \* per call: the engine operations that raised an Exception
    cancels,     \* per call: the awaits at which it was cancelled
    outcome,     \* per call: what the call returns or raises
    nextSession, \* the next engine handle popen_uci hands out
    trace        \* per call: the states it went through, each with the
                 \* engine handle its command was issued on (0: none)

\* The start of the service process (engine_service/main.py, lines 13-46).
VARIABLES
    environ,        \* os.environ: the value of STOCKFISH_PATH, or None
    which,          \* what shutil.which('stockfish') finds, or None
    fs,             \* the file system: what lies at each path
    STOCKFISH_PATH, \* the module-level STOCKFISH_PATH (None: not assigned)
    server          \* importing, starting, serving or failed

\* The self-play of the frontend (frontend/app/selfplay.py, ui_app.py).
VARIABLES
    _task,       \* SelfPlayController._task: a task, or 0 for None
    _stop,       \* SelfPlayController._stop: an Event
    events,      \* per Event: whether it is set
    loop,        \* per task: where its self_play_loop is suspended
    res,         \* per task: the kind of its local res
    game_board,  \* AppState.game_board: the number of moves pushed
    view_only,   \* the view-only mode of the board in the browser
    created,     \* the tasks asyncio.create_task has created
    late,        \* per task: the moves it pushed with its stop_event set
    notify       \* the last ui.notify of the self-play button

\* The moves the frontend page plays (ui_app.py): what each analysis was
\* asked for, and the handler of the button "Zahrát tah".
VARIABLES
    task_fen,    \* per task: the game position its analysis was asked for
    play,        \* where play_one_best_move is suspended, or idle
    play_res,    \* the kind of the local res of play_one_best_move
    play_fen     \* the game position play_one_best_move asked about

\* The page of the game frontend (game_frontend/app/game_ui.py).
VARIABLES
    current_level,     \* GameState.current_level
    money,             \* GameState.money
    editor_placement,  \* GameState.editor_placement
    white_depth,       \* GameState.white_depth
    white_time,        \* GameState.white_time
    sim_running,       \* GameState.sim_running
    ignore_fen_events, \* GameState.ignore_fen_events
    sim,               \* per call of start_next_opponent: its locals
    setter             \* where the set_board_fen of reset_board, or the
                       \* revert_board of on_board_change, is suspended

\* The page of the player frontend (player_frontend/main.py).
VARIABLES
    in_simulation,      \* GameState.in_simulation
    player_money,       \* GameState.money
    current_level_idx,  \* GameState.current_level_idx
    psim                \* the locals of start_simulation

startupVars == <<environ, which, fs, STOCKFISH_PATH, server>>
playerVars == <<in_simulation, player_money, current_level_idx, psim>>
gameVars == <<current_level, money, editor_placement, white_depth, white_time,
              sim_running, ignore_fen_events, sim, setter>>
handlerVars == <<task_fen, play, play_res, play_fen>>
frontendVars == <<_task, _stop, events, loop, res, game_board, view_only,
                  created, late, notify>>
serviceVars == <<pc, req, board, session, proc, info, log, faults, cancels,
                 outcome, nextSession, trace>>
\* What the handler of "Zahrát tah" leaves alone but for the board and the
\* notification.
frontendPlayFrame == <<_task, _stop, events, loop, res, game_board, view_only,
                       created, late>>
\* The pages, and the programs beside the frontend page.
pageVars == <<frontendVars, handlerVars, gameVars, playerVars>>
beyondFrontend == <<serviceVars, startupVars, gameVars, playerVars>>
beyondGame == <<serviceVars, startupVars, frontendVars, handlerVars,
                playerVars>>
beyondPlayer == <<serviceVars, startupVars, frontendVars, handlerVars,
                  gameVars>>
vars == <<serviceVars, startupVars, pageVars>>

Awaits == {"AcquiringSession", "Configuring", "Searching",
           "FallbackSearching", "ReleasingSession"}
PcValues == {"Idle", "Done"} \cup Awaits

\* The outcome of a call: a response (status 200 with the result, or an
\* HTTP error), or CancelledError leaving the handler.
NoOutcome == [kind |-> "none", status |-> 0, detail |-> "",
              best_move |-> NoMove, score |-> None, depth |-> 0]
HttpError(status, detail) ==
    [kind |-> "error", status |-> status, detail |-> detail,
     best_move |-> NoMove, score |-> None, depth |-> 0]
Cancelled == [kind |-> "cancelled", status |-> 0, detail |-> "",
              best_move |-> NoMove, score |-> None, depth |-> 0]
\* AnalysisResponse(best_move=best_move, score=score, depth=int(request.depth))
AnalysisResponse(best_move, score, depth) ==
    [kind |-> "response", status |-> 200, detail |-> "",
     best_move |-> best_move, score |-> score, depth |-> depth]

At(state, handle) == [state |-> state, engine |-> handle]
EngineStates == {"Configuring", "Searching", "FallbackSearching",
                 "ReleasingSession"}

Op(name, depth) == [op |-> name, depth |-> depth]
Count(s, name) == Cardinality({i \in 1..Len(s) : s[i].op = name})

\* The paths of the executable: the one an override names, the one
\* shutil.which finds on PATH, and the fixed default of line 17.
OverridePath == "/opt/stockfish"
WhichPath == "/usr/bin/stockfish"
DefaultPath == "/usr/games/stockfish"
Paths == {OverridePath, WhichPath, DefaultPath}
FileKinds == {"absent", "file", "directory"}
EnvValues == {None, Some(""), Some(OverridePath)}
WhichResults == {None, Some(WhichPath)}

\* resolve_stockfish_path taking an empty STOCKFISH_PATH for an override.
resolve_stockfish_path_if_set(env, wh) ==
    IF env # None THEN env[1]
    ELSE IF wh # None THEN wh[1]
    ELSE DefaultPath

\* resolve_stockfish_path (lines 13-17): `if env_path` is false for None and
\* for the empty string; `shutil.which(..) or default`.
resolve_stockfish_path(env, wh) ==
    IF env # None /\ env[1] # "" THEN env[1]
    ELSE IF wh # None THEN wh[1]
    ELSE DefaultPath

\* os.path.exists(path): true of a file and of a directory.
exists(files, path) == files[path] # "absent"

\* The service started with stockfish found on PATH, and is serving.
Serving ==
    /\ environ = None
    /\ which = Some(WhichPath)
    /\ fs = [p \in Paths |-> IF p = WhichPath THEN "file" ELSE "absent"]
    /\ STOCKFISH_PATH = Some(WhichPath)
    /\ server = "serving"

\* The frontend page after build_ui: a controller without task, its Event
\* not set (selfplay.py lines 7-9), a new game (ui_app.py lines 17-21).
MaxTasks == 2
GameLength == 2
Tasks == 1..MaxTasks
Events == 0..MaxTasks
NoRes == "unset"
PageBuilt ==
    /\ _task = 0
    /\ _stop = 0
    /\ events = [e \in Events |-> FALSE]
    /\ loop = [t \in Tasks |-> "unborn"]
    /\ res = [t \in Tasks |-> NoRes]
    /\ game_board = 0
    /\ view_only = FALSE
    /\ created = {}
    /\ late = [t \in Tasks |-> 0]
    /\ notify = "none"
    /\ task_fen = [t \in Tasks |-> 0]
    /\ play = "idle"
    /\ play_res = NoRes
    /\ play_fen = 0

\* ------------------------------------------------- the game frontend page
\* config.py
INITIAL_MONEY == 10
BASE_ENGINE_DEPTH == 3
BASE_ENGINE_TIME == 0
DEPTH_COST == 1
TIME_COST == 1
PIECE_COSTS == [P |-> 1, N |-> 3, B |-> 3, R |-> 5, Q |-> 9, K |-> 0]
\* LEVELS, by the reward of each level
LEVELS == <<5, 5, 7, 7, 15>>
\* the ceiling of adjust_depth (line 262)
DepthCeiling == 30
\* MAX_PLIES of start_next_opponent (line 361)
MAX_PLIES == 300

\* A placement: the white pieces on the board, the number of black pieces,
\* and whether a white piece stands on ranks 8..5.
Placement(white, black, far) == [white |-> white, black |-> black, far |-> far]
\* "8/8/8/8/8/8/8/8"
EmptyPlacement == Placement(<<>>, 0, FALSE)
\* The placements a fen_update event brings: the empty board, a king with
\* queen and pawn (which cost the whole INITIAL_MONEY), two kings, a king
\* and a black piece, a king on the opponent's half.
Setups == {EmptyPlacement,
           Placement(<<"K", "Q", "P">>, 0, FALSE),
           Placement(<<"K", "K">>, 0, FALSE),
           Placement(<<"K">>, 1, FALSE),
           Placement(<<"K">>, 0, TRUE)}

\* _count_piece_cost_from_placement (lines 41-46)
RECURSIVE _count_piece_cost(_)
_count_piece_cost(white) ==
    IF white = <<>> THEN 0
    ELSE PIECE_COSTS[Head(white)] + _count_piece_cost(Tail(white))
\* placement.count("K")
count_K(p) == Cardinality({i \in 1..Len(p.white) : p.white[i] = "K"})

\* total_spent (lines 132-136) of a placement, a depth and a time
total_spent(p, depth, time) ==
    _count_piece_cost(p.white)
    + (IF depth > BASE_ENGINE_DEPTH THEN depth - BASE_ENGINE_DEPTH ELSE 0)
      * DEPTH_COST
    + (IF time > BASE_ENGINE_TIME THEN time - BASE_ENGINE_TIME ELSE 0)
      * TIME_COST
\* money_left (lines 138-139)
money_left == money - total_spent(editor_placement, white_depth, white_time)

\* The calls of start_next_opponent that get past its guards, in order.
Sims == {1, 2}
MaxUpgrades == 1
SimLength == 1
\* board.outcome(claim_draw=True): none, or the winner, or a draw
Outcomes == {"none", "white", "black", "draw"}
\* What engine.analyze does: httpx.TimeoutException, another exception, a
\* result without best_move, a string that is no move, a move that is not
\* legal on the board, a legal move.
SimResKinds == {"timeout", "error", "no_move", "malformed", "illegal", "legal"}
\* The locals of a call: where it is suspended, the number of moves pushed
\* on `board` and its outcome, ply, saved_placement, reward, res, and the
\* editor_placement the board was built from.
NoSim == [at |-> "unborn", pushed |-> 0, outcome |-> "none", ply |-> 0,
          saved_placement |-> EmptyPlacement, reward |-> 0, res |-> NoRes,
          built_from |-> EmptyPlacement]

\* The page after build_ui: GameState() (lines 23-37).
GameBuilt ==
    /\ current_level = 1
    /\ money = INITIAL_MONEY
    /\ editor_placement = EmptyPlacement
    /\ white_depth = BASE_ENGINE_DEPTH
    /\ white_time = BASE_ENGINE_TIME
    /\ sim_running = FALSE
    /\ ignore_fen_events = FALSE
    /\ sim = [s \in Sims |-> NoSim]
    /\ setter = "idle"

\* ----------------------------------------------- the player frontend page
\* GameState.money at the start (game_logic.py line 12)
StartingMoney == 20
\* LEVELS of levels_config.py, by the reward of each level
PlayerLevels == <<5, 5, 7, 7, 15>>
MaxPlayerSims == 2

\* EngineResult (api_client.py lines 13-18)
EngineResult(best_move, score, depth) ==
    [best_move |-> best_move, score |-> score, depth |-> depth]
\* EngineResult(best_move=None, score=0, depth=0) (line 49)
SafeDefault == EngineResult(NoMove, Some(0), 0)

\* What the request of analyze meets: the transport fails or times out,
\* or an answer arrives with a status and a body.  The bodies: no JSON, a
\* JSON list, an object with a move, an object whose best_move is null, an
\* empty object.
Bodies == {"not_json", "list", "move", "null_move", "empty_object"}
Reply(transport, status, body) ==
    [transport |-> transport, status |-> status, body |-> body]
Replies ==
    {Reply(t, 0, "none") : t \in {"connect_error", "timeout"}}
    \cup {Reply("ok", st, b) : st \in {200, 422, 500}, b \in Bodies}
NoReply == Reply("none", 0, "none")

\* The body of the try block of EngineClient.analyze (lines 31-45) for a
\* request of the given depth: client.post raises on a transport failure,
\* raise_for_status on a status of 400 or more, response.json() on a body
\* that is no JSON, data.get on a JSON value that is no object; else the
\* EngineResult is built from the object's keys.
analyze_try(reply, depth) ==
    IF reply.transport # "ok" THEN [raised |-> TRUE, value |-> SafeDefault]
    ELSE IF reply.status >= 400 THEN [raised |-> TRUE, value |-> SafeDefault]
    ELSE IF reply.body \in {"not_json", "list"}
         THEN [raised |-> TRUE, value |-> SafeDefault]
    ELSE IF reply.body = "move"
         THEN [raised |-> FALSE,
               value |-> EngineResult("e2e4", Some(0), depth)]
    ELSE IF reply.body = "null_move"
         THEN [raised |-> FALSE, value |-> EngineResult(NoMove, None, depth)]
    ELSE [raised |-> FALSE, value |-> EngineResult(NoMove, None, depth)]

\* analyze without its except clause.
analyze_uncaught(reply, depth) == analyze_try(reply, depth)

\* EngineClient.analyze (lines 25-49): `except Exception` turns whatever
\* the try block raises into the safe default.
analyze(reply, depth) ==
    IF analyze_try(reply, depth).raised
    THEN [raised |-> FALSE, value |-> SafeDefault]
    ELSE analyze_try(reply, depth)

\* The locals of start_simulation: where it is suspended, the moves pushed
\* on `board` and its outcome, `result`, what the last request met, and
\* the number of simulations so far.
NoPsim == [at |-> "idle", pushed |-> 0, outcome |-> "none",
           result |-> SafeDefault, reply |-> NoReply, n |-> 0]

\* The page when the module is imported: GameState() (game_logic.py lines
\* 10-22, 117).
PlayerBuilt ==
    /\ in_simulation = FALSE
    /\ player_money = StartingMoney
    /\ current_level_idx = 0
    /\ psim = NoPsim

Init ==
    /\ pc = [c \in Calls |-> "Idle"]
    /\ req = [c \in Calls |-> NoRequest]
    /\ board = [c \in Calls |-> NoBoard]
    /\ session = [c \in Calls |-> 0]
    /\ proc = [c \in Calls |-> "none"]
    /\ info = [c \in Calls |-> NoInfo]
    /\ log = [c \in Calls |-> <<>>]
    /\ faults = [c \in Calls |-> {}]
    /\ cancels = [c \in Calls |-> {}]
    /\ outcome = [c \in Calls |-> NoOutcome]
    /\ nextSession = 1
    /\ trace = [c \in Calls |-> <<At("Idle", 0)>>]
    /\ Serving
    /\ PageBuilt
    /\ GameBuilt
    /\ PlayerBuilt

\* ------------------------------------------------------------ the steps
\* The states of spec 4.1 a step goes through: `passed`, the states it
\* passes without suspending, then the state in which it leaves the call.
\* In the states that await an engine command the handle is the local
\* `engine` of the call.
Step(c, passed) ==
    /\ trace' = [trace EXCEPT ![c] =
                    @ \o passed \o
                    <<At(pc'[c], IF pc'[c] \in EngineStates THEN session'[c] ELSE 0)>>]
    /\ UNCHANGED <<startupVars, pageVars>>

\* The finally block (lines 98-102) is entered with `result` pending (the
\* value being returned or the exception in flight): engine.quit() is
\* invoked and the call suspends in it.
Finally(c, result) ==
    /\ pc' = [pc EXCEPT ![c] = "ReleasingSession"]
    /\ log' = [log EXCEPT ![c] = Append(@, Op("quit", 0))]
    /\ outcome' = [outcome EXCEPT ![c] = result]

\* Receive with the engine started before the FEN is parsed.
ReceiveSpawnFirst(c) ==
    /\ pc[c] = "Idle"
    /\ \E r \in Requests :
        /\ req' = [req EXCEPT ![c] = r]
        /\ IF ValidationErrors(r) # {}
           THEN /\ pc' = [pc EXCEPT ![c] = "Done"]
                /\ outcome' = [outcome EXCEPT ![c] = HttpError(422, "validation")]
                /\ UNCHANGED <<board, log>>
           ELSE /\ board' = [board EXCEPT ![c] = ParseBoard(r.fen)]
                /\ log' = [log EXCEPT ![c] = Append(@, Op("popen", 0))]
                /\ pc' = [pc EXCEPT ![c] = "AcquiringSession"]
                /\ UNCHANGED outcome
    /\ UNCHANGED <<session, proc, info, faults, cancels, nextSession>>
    /\ Step(c, <<At("Validating", 0)>>)

\* A request arrives: pydantic validates it (lines 23-34, a 422 response),
\* analyze_position parses the FEN (lines 57-60, a 400 response) and calls
\* popen_uci (line 64).
Receive(c) ==
    /\ pc[c] = "Idle"
    /\ \E r \in Requests :
        /\ req' = [req EXCEPT ![c] = r]
        /\ IF ValidationErrors(r) # {}
           THEN /\ pc' = [pc EXCEPT ![c] = "Done"]
                /\ outcome' = [outcome EXCEPT ![c] = HttpError(422, "validation")]
                /\ UNCHANGED <<board, log>>
           ELSE IF ~ParseBoard(r.fen).ok
           THEN /\ pc' = [pc EXCEPT ![c] = "Done"]
                /\ outcome' = [outcome EXCEPT ![c] = HttpError(400, "Invalid FEN")]
                /\ UNCHANGED <<board, log>>
           ELSE /\ board' = [board EXCEPT ![c] = ParseBoard(r.fen)]
                /\ log' = [log EXCEPT ![c] = Append(@, Op("popen", 0))]
                /\ pc' = [pc EXCEPT ![c] = "AcquiringSession"]
                /\ UNCHANGED outcome
    /\ UNCHANGED <<session, proc, info, faults, cancels, nextSession>>
    /\ Step(c, <<At("Validating", 0)>>)

\* PopenReturn configuring the strength limit on every call, with or
\* without uci_elo.
PopenReturnAlwaysConfigure(c) ==
    /\ pc[c] = "AcquiringSession"
    /\ session' = [session EXCEPT ![c] = nextSession]
    /\ nextSession' = nextSession + 1
    /\ proc' = [proc EXCEPT ![c] = "running"]
    /\ log' = [log EXCEPT ![c] = Append(@, Op("configure", 0))]
    /\ pc' = [pc EXCEPT ![c] = "Configuring"]
    /\ UNCHANGED <<req, board, info, faults, cancels, outcome>>
    /\ Step(c, <<>>)

\* PopenReturn keeping the engine in one module-level variable that every
\* call uses, instead of a local of the call.
PopenReturnShared(c) ==
    /\ pc[c] = "AcquiringSession"
    /\ session' = [d \in DOMAIN session |-> nextSession]
    /\ nextSession' = nextSession + 1
    /\ proc' = [proc EXCEPT ![c] = "running"]
    /\ IF req[c].uci_elo # None
       THEN /\ log' = [log EXCEPT ![c] = Append(@, Op("configure", 0))]
            /\ pc' = [pc EXCEPT ![c] = "Configuring"]
       ELSE /\ log' = [log EXCEPT ![c] = Append(@, Op("analyse", req[c].depth))]
            /\ pc' = [pc EXCEPT ![c] = "Searching"]
    /\ UNCHANGED <<req, board, info, faults, cancels, outcome>>
    /\ Step(c, <<>>)

\* PopenReturn under a lock around the engine: the call waits while
\* another call is between popen_uci and the end of engine.quit.
PopenReturnLocked(c) ==
    /\ pc[c] = "AcquiringSession"
    /\ \A d \in DOMAIN pc \ {c} : pc[d] \notin EngineStates
    /\ session' = [session EXCEPT ![c] = nextSession]
    /\ nextSession' = nextSession + 1
    /\ proc' = [proc EXCEPT ![c] = "running"]
    /\ IF req[c].uci_elo # None
       THEN /\ log' = [log EXCEPT ![c] = Append(@, Op("configure", 0))]
            /\ pc' = [pc EXCEPT ![c] = "Configuring"]
       ELSE /\ log' = [log EXCEPT ![c] = Append(@, Op("analyse", req[c].depth))]
            /\ pc' = [pc EXCEPT ![c] = "Searching"]
    /\ UNCHANGED <<req, board, info, faults, cancels, outcome>>
    /\ Step(c, <<>>)

\* popen_uci returns the engine (line 64); the call goes on to configure
\* (line 72) when a strength limit was requested, else to analyse (line 80).
PopenReturn(c) ==
    /\ pc[c] = "AcquiringSession"
    /\ session' = [session EXCEPT ![c] = nextSession]
    /\ nextSession' = nextSession + 1
    /\ proc' = [proc EXCEPT ![c] = "running"]
    /\ IF req[c].uci_elo # None
       THEN /\ log' = [log EXCEPT ![c] = Append(@, Op("configure", 0))]
            /\ pc' = [pc EXCEPT ![c] = "Configuring"]
       ELSE /\ log' = [log EXCEPT ![c] = Append(@, Op("analyse", req[c].depth))]
            /\ pc' = [pc EXCEPT ![c] = "Searching"]
    /\ UNCHANGED <<req, board, info, faults, cancels, outcome>>
    /\ Step(c, <<>>)

\* PopenFail answering like a search fault, without the text of line 66.
PopenFailGenericDetail(c) ==
    /\ pc[c] = "AcquiringSession"
    /\ faults' = [faults EXCEPT ![c] = @ \cup {"popen"}]
    /\ pc' = [pc EXCEPT ![c] = "Done"]
    /\ outcome' = [outcome EXCEPT ![c] = HttpError(500, "engine fault")]
    /\ UNCHANGED <<req, board, session, proc, info, log, cancels, nextSession>>
    /\ Step(c, <<>>)

\* PopenFail inside the try block: the finally block runs on a launch
\* failure too.
PopenFailThenQuit(c) ==
    /\ pc[c] = "AcquiringSession"
    /\ faults' = [faults EXCEPT ![c] = @ \cup {"popen"}]
    /\ Finally(c, HttpError(500, "Failed to start Stockfish"))
    /\ UNCHANGED <<req, board, session, proc, info, cancels, nextSession>>
    /\ Step(c, <<>>)

\* PopenFail answering with a client error.
PopenFailClientError(c) ==
    /\ pc[c] = "AcquiringSession"
    /\ faults' = [faults EXCEPT ![c] = @ \cup {"popen"}]
    /\ pc' = [pc EXCEPT ![c] = "Done"]
    /\ outcome' = [outcome EXCEPT ![c] =
                      HttpError(400, "Failed to start Stockfish")]
    /\ UNCHANGED <<req, board, session, proc, info, log, cancels, nextSession>>
    /\ Step(c, <<>>)

\* popen_uci raises (lines 65-66): no engine, a 500 response.
PopenFail(c) ==
    /\ pc[c] = "AcquiringSession"
    /\ faults' = [faults EXCEPT ![c] = @ \cup {"popen"}]
    /\ pc' = [pc EXCEPT ![c] = "Done"]
    /\ outcome' = [outcome EXCEPT ![c] =
                      HttpError(500, "Failed to start Stockfish")]
    /\ UNCHANGED <<req, board, session, proc, info, log, cancels, nextSession>>
    /\ Step(c, <<>>)

\* ConfigureReturn calling analyse with a Limit that has no depth.
ConfigureReturnUnbounded(c) ==
    /\ pc[c] = "Configuring"
    /\ proc[c] = "running"
    /\ log' = [log EXCEPT ![c] = Append(@, Op("analyse", 0))]
    /\ pc' = [pc EXCEPT ![c] = "Searching"]
    /\ UNCHANGED <<req, board, session, proc, info, faults, cancels, outcome,
                   nextSession>>
    /\ Step(c, <<>>)

\* engine.configure returns (line 72); analyse is called (line 80).
ConfigureReturn(c) ==
    /\ pc[c] = "Configuring"
    /\ proc[c] = "running"
    /\ log' = [log EXCEPT ![c] = Append(@, Op("analyse", req[c].depth))]
    /\ pc' = [pc EXCEPT ![c] = "Searching"]
    /\ UNCHANGED <<req, board, session, proc, info, faults, cancels, outcome,
                   nextSession>>
    /\ Step(c, <<>>)

\* ConfigureFail without the inner except clause: the failure reaches the
\* outer handler.
ConfigureFailPropagates(c) ==
    /\ pc[c] = "Configuring"
    /\ faults' = [faults EXCEPT ![c] = @ \cup {"configure"}]
    /\ Finally(c, HttpError(500, "engine fault"))
    /\ UNCHANGED <<req, board, session, proc, info, cancels, nextSession>>
    /\ Step(c, <<>>)

\* engine.configure raises an Exception (lines 73-75): ignored, analyse is
\* called (line 80).
ConfigureFail(c) ==
    /\ pc[c] = "Configuring"
    /\ faults' = [faults EXCEPT ![c] = @ \cup {"configure"}]
    /\ log' = [log EXCEPT ![c] = Append(@, Op("analyse", req[c].depth))]
    /\ pc' = [pc EXCEPT ![c] = "Searching"]
    /\ UNCHANGED <<req, board, session, proc, info, cancels, outcome,
                   nextSession>>
    /\ Step(c, <<>>)

\* AnalyseReturn asking engine.play for the move whatever the principal
\* line holds.
AnalyseReturnAlwaysPlay(c) ==
    /\ pc[c] = "Searching"
    /\ proc[c] = "running"
    /\ \E i \in EngineInfos(board[c]) :
        /\ info' = [info EXCEPT ![c] = i]
        /\ log' = [log EXCEPT ![c] = Append(@, Op("play", req[c].depth))]
        /\ pc' = [pc EXCEPT ![c] = "FallbackSearching"]
        /\ UNCHANGED outcome
    /\ UNCHANGED <<req, board, session, proc, faults, cancels, nextSession>>
    /\ Step(c, <<At("Extracting", 0)>>)

\* AnalyseReturn reporting the default of the depth field instead of the
\* depth of the request.
AnalyseReturnDefaultDepth(c) ==
    /\ pc[c] = "Searching"
    /\ proc[c] = "running"
    /\ \E i \in EngineInfos(board[c]) :
        /\ info' = [info EXCEPT ![c] = i]
        /\ IF ExtractBestMove(i) = NoMove
           THEN /\ log' = [log EXCEPT ![c] = Append(@, Op("play", req[c].depth))]
                /\ pc' = [pc EXCEPT ![c] = "FallbackSearching"]
                /\ UNCHANGED outcome
           ELSE Finally(c, AnalysisResponse(ExtractBestMove(i), ExtractScore(i),
                                            15))
    /\ UNCHANGED <<req, board, session, proc, faults, cancels, nextSession>>
    /\ Step(c, <<At("Extracting", 0)>>)

\* engine.analyse returns info (line 80); score and best move are extracted
\* (lines 81-85); without a best move engine.play is called (line 89), else
\* the response is returned (line 92) through the finally block.
AnalyseReturn(c) ==
    /\ pc[c] = "Searching"
    /\ proc[c] = "running"
    /\ \E i \in EngineInfos(board[c]) :
        /\ info' = [info EXCEPT ![c] = i]
        /\ IF ExtractBestMove(i) = NoMove
           THEN /\ log' = [log EXCEPT ![c] = Append(@, Op("play", req[c].depth))]
                /\ pc' = [pc EXCEPT ![c] = "FallbackSearching"]
                /\ UNCHANGED outcome
           ELSE Finally(c, AnalysisResponse(ExtractBestMove(i), ExtractScore(i),
                                            req[c].depth))
    /\ UNCHANGED <<req, board, session, proc, faults, cancels, nextSession>>
    /\ Step(c, <<At("Extracting", 0)>>)

\* AnalyseFail without the finally block: the engine is not released.
AnalyseFailNoRelease(c) ==
    /\ pc[c] = "Searching"
    /\ faults' = [faults EXCEPT ![c] = @ \cup {"analyse"}]
    /\ pc' = [pc EXCEPT ![c] = "Done"]
    /\ outcome' = [outcome EXCEPT ![c] = HttpError(500, "engine fault")]
    /\ UNCHANGED <<req, board, session, proc, info, log, cancels, nextSession>>
    /\ Step(c, <<>>)

\* engine.analyse raises an Exception (lines 96-97): a 500 response, through
\* the finally block.
AnalyseFail(c) ==
    /\ pc[c] = "Searching"
    /\ faults' = [faults EXCEPT ![c] = @ \cup {"analyse"}]
    /\ Finally(c, HttpError(500, "engine fault"))
    /\ UNCHANGED <<req, board, session, proc, info, cancels, nextSession>>
    /\ Step(c, <<>>)

\* PlayReturn asking the engine again when it returned no move.
PlayReturnRetry(c) ==
    /\ pc[c] = "FallbackSearching"
    /\ proc[c] = "running"
    /\ \E m \in EnginePlays(board[c]) :
        IF m = NoMove
        THEN /\ log' = [log EXCEPT ![c] = Append(@, Op("play", req[c].depth))]
             /\ UNCHANGED <<pc, outcome>>
        ELSE Finally(c, AnalysisResponse(m, ExtractScore(info[c]), req[c].depth))
    /\ UNCHANGED <<req, board, session, proc, info, faults, cancels,
                   nextSession>>
    /\ Step(c, <<>>)

\* PlayReturn building the response from the result of engine.play alone,
\* which carries no score.
PlayReturnDropsScore(c) ==
    /\ pc[c] = "FallbackSearching"
    /\ proc[c] = "running"
    /\ \E m \in EnginePlays(board[c]) :
        Finally(c, AnalysisResponse(m, None, req[c].depth))
    /\ UNCHANGED <<req, board, session, proc, info, faults, cancels,
                   nextSession>>
    /\ Step(c, <<>>)

\* PlayReturn treating a result without a move as a failure.
PlayReturnNoMoveIsError(c) ==
    /\ pc[c] = "FallbackSearching"
    /\ proc[c] = "running"
    /\ \E m \in EnginePlays(board[c]) :
        IF m = NoMove
        THEN Finally(c, HttpError(500, "engine fault"))
        ELSE Finally(c, AnalysisResponse(m, ExtractScore(info[c]), req[c].depth))
    /\ UNCHANGED <<req, board, session, proc, info, faults, cancels,
                   nextSession>>
    /\ Step(c, <<>>)

\* engine.play returns (lines 89-92): its move, or None, is the best move.
PlayReturn(c) ==
    /\ pc[c] = "FallbackSearching"
    /\ proc[c] = "running"
    /\ \E m \in EnginePlays(board[c]) :
        Finally(c, AnalysisResponse(m, ExtractScore(info[c]), req[c].depth))
    /\ UNCHANGED <<req, board, session, proc, info, faults, cancels,
                   nextSession>>
    /\ Step(c, <<>>)

\* PlayFail ignored like a configure failure: the call answers without a move.
PlayFailSwallowed(c) ==
    /\ pc[c] = "FallbackSearching"
    /\ faults' = [faults EXCEPT ![c] = @ \cup {"play"}]
    /\ Finally(c, AnalysisResponse(NoMove, ExtractScore(info[c]), req[c].depth))
    /\ UNCHANGED <<req, board, session, proc, info, cancels, nextSession>>
    /\ Step(c, <<>>)

\* PlayFail without the finally block: the error is raised at once.
PlayFailNoRelease(c) ==
    /\ pc[c] = "FallbackSearching"
    /\ faults' = [faults EXCEPT ![c] = @ \cup {"play"}]
    /\ pc' = [pc EXCEPT ![c] = "Done"]
    /\ outcome' = [outcome EXCEPT ![c] = HttpError(500, "engine fault")]
    /\ UNCHANGED <<req, board, session, proc, info, log, cancels, nextSession>>
    /\ Step(c, <<>>)

\* engine.play raises an Exception (lines 96-97).
PlayFail(c) ==
    /\ pc[c] = "FallbackSearching"
    /\ faults' = [faults EXCEPT ![c] = @ \cup {"play"}]
    /\ Finally(c, HttpError(500, "engine fault"))
    /\ UNCHANGED <<req, board, session, proc, info, cancels, nextSession>>
    /\ Step(c, <<>>)

\* The caller cancels the call: CancelledError is raised at the await where
\* the call is suspended.  It is no Exception, so no except clause of the
\* handler catches it.  In popen_uci (line 64) it leaves the handler; inside
\* the try block (lines 72, 80, 89) it runs the finally block; in
\* engine.quit (line 100) it leaves the finally block.
Cancel(c) ==
    /\ pc[c] \in Awaits
    /\ cancels' = [cancels EXCEPT ![c] = @ \cup {pc[c]}]
    /\ IF pc[c] \in {"AcquiringSession", "ReleasingSession"}
       THEN /\ pc' = [pc EXCEPT ![c] = "Done"]
            /\ outcome' = [outcome EXCEPT ![c] = Cancelled]
            /\ UNCHANGED log
       ELSE Finally(c, Cancelled)
    /\ UNCHANGED <<req, board, session, proc, info, faults, nextSession>>
    /\ Step(c, <<>>)

\* ReleaseReturn handing the engine back to a pool, from which the next
\* popen takes it.
ReleaseReturnPooled(c) ==
    /\ pc[c] = "ReleasingSession"
    /\ proc[c] = "exited"
    /\ pc' = [pc EXCEPT ![c] = "Done"]
    /\ nextSession' = session[c]
    /\ UNCHANGED <<req, board, session, proc, info, log, faults, cancels,
                   outcome>>
    /\ Step(c, <<>>)

\* engine.quit returns (line 100): the process has exited; the pending
\* value is returned or the pending exception raised.
ReleaseReturn(c) ==
    /\ pc[c] = "ReleasingSession"
    /\ proc[c] = "exited"
    /\ pc' = [pc EXCEPT ![c] = "Done"]
    /\ UNCHANGED <<req, board, session, proc, info, log, faults, cancels,
                   outcome, nextSession>>
    /\ Step(c, <<>>)

\* engine.quit raises an Exception (lines 101-102): ignored.
ReleaseFail(c) ==
    /\ pc[c] = "ReleasingSession"
    /\ faults' = [faults EXCEPT ![c] = @ \cup {"quit"}]
    /\ pc' = [pc EXCEPT ![c] = "Done"]
    /\ UNCHANGED <<req, board, session, proc, info, log, cancels, outcome,
                   nextSession>>
    /\ Step(c, <<>>)

\* The environment: the engine process exits, on quit or on its own.
ProcessExits(c) ==
    /\ proc[c] = "running"
    /\ proc' = [proc EXCEPT ![c] = "exited"]
    /\ UNCHANGED <<pc, req, board, session, info, log, faults, cancels,
                   outcome, nextSession, trace>>
    /\ UNCHANGED <<startupVars, pageVars>>

Next ==
    \E c \in Calls :
        \/ Receive(c)
        \/ PopenReturn(c)
        \/ PopenFail(c)
        \/ ConfigureReturn(c)
        \/ ConfigureFail(c)
        \/ AnalyseReturn(c)
        \/ AnalyseFail(c)
        \/ PlayReturn(c)
        \/ PlayFail(c)
        \/ Cancel(c)
        \/ ReleaseReturn(c)
        \/ ReleaseFail(c)
        \/ ProcessExits(c)

Spec == Init /\ [][Next]_vars

\* ------------------------------------------------ r-chess-engine-service
\* The first implementation of the endpoint ("main - chess engine service
\* .py"), over the same state.  Its request has a fen and a depth with no
\* bounds, the engine is started before the FEN is parsed, analyse and play
\* are both always issued, score() is called without mate_score, and the
\* finally block awaits engine.quit() unguarded.

\* "score": info.get("score").white().score() if info.get("score") else None
LegacyExtractScore(i) ==
    IF i.score # None THEN ScoreOf(White(i.score[1]), None) ELSE None

\* A request arrives (lines 12-14: any fen, any depth) and popen_uci is
\* called (line 30).
LegacyReceive(c) ==
    /\ pc[c] = "Idle"
    /\ \E r \in Requests :
        req' = [req EXCEPT ![c] = [r EXCEPT !.uci_elo = None]]
    /\ log' = [log EXCEPT ![c] = Append(@, Op("popen", 0))]
    /\ pc' = [pc EXCEPT ![c] = "AcquiringSession"]
    /\ UNCHANGED <<board, session, proc, info, faults, cancels, outcome,
                   nextSession>>
    /\ Step(c, <<>>)

\* popen_uci returns (line 30); the FEN is parsed (line 33), a ValueError
\* becoming a 500 response (lines 47-48) through the finally block; else
\* analyse is called (line 36).
LegacyPopenReturn(c) ==
    /\ pc[c] = "AcquiringSession"
    /\ session' = [session EXCEPT ![c] = nextSession]
    /\ nextSession' = nextSession + 1
    /\ proc' = [proc EXCEPT ![c] = "running"]
    /\ IF ~ParseBoard(req[c].fen).ok
       THEN /\ Finally(c, HttpError(500, "Invalid FEN"))
            /\ UNCHANGED board
       ELSE /\ board' = [board EXCEPT ![c] = ParseBoard(req[c].fen)]
            /\ log' = [log EXCEPT ![c] = Append(@, Op("analyse", req[c].depth))]
            /\ pc' = [pc EXCEPT ![c] = "Searching"]
            /\ UNCHANGED outcome
    /\ UNCHANGED <<req, info, faults, cancels>>
    /\ Step(c, <<>>)

\* popen_uci raises (line 30, outside the try block): the exception leaves
\* the handler, which the framework answers with a 500 response.
LegacyPopenFail(c) ==
    /\ pc[c] = "AcquiringSession"
    /\ faults' = [faults EXCEPT ![c] = @ \cup {"popen"}]
    /\ pc' = [pc EXCEPT ![c] = "Done"]
    /\ outcome' = [outcome EXCEPT ![c] = HttpError(500, "Internal Server Error")]
    /\ UNCHANGED <<req, board, session, proc, info, log, cancels, nextSession>>
    /\ Step(c, <<>>)

\* engine.analyse returns info (line 36); play is called (line 39).
LegacyAnalyseReturn(c) ==
    /\ pc[c] = "Searching"
    /\ proc[c] = "running"
    /\ \E i \in EngineInfos(board[c]) : info' = [info EXCEPT ![c] = i]
    /\ log' = [log EXCEPT ![c] = Append(@, Op("play", req[c].depth))]
    /\ pc' = [pc EXCEPT ![c] = "FallbackSearching"]
    /\ UNCHANGED <<req, board, session, proc, faults, cancels, outcome,
                   nextSession>>
    /\ Step(c, <<>>)

\* engine.analyse raises an Exception (lines 47-48).
LegacyAnalyseFail(c) ==
    /\ pc[c] = "Searching"
    /\ faults' = [faults EXCEPT ![c] = @ \cup {"analyse"}]
    /\ Finally(c, HttpError(500, "engine fault"))
    /\ UNCHANGED <<req, board, session, proc, info, cancels, nextSession>>
    /\ Step(c, <<>>)

\* engine.play returns (line 39); the result is built (lines 41-45).
LegacyPlayReturn(c) ==
    /\ pc[c] = "FallbackSearching"
    /\ proc[c] = "running"
    /\ \E m \in EnginePlays(board[c]) :
        Finally(c, AnalysisResponse(m, LegacyExtractScore(info[c]), req[c].depth))
    /\ UNCHANGED <<req, board, session, proc, info, faults, cancels,
                   nextSession>>
    /\ Step(c, <<>>)

\* engine.play raises an Exception (lines 47-48).
LegacyPlayFail(c) ==
    /\ pc[c] = "FallbackSearching"
    /\ faults' = [faults EXCEPT ![c] = @ \cup {"play"}]
    /\ Finally(c, HttpError(500, "engine fault"))
    /\ UNCHANGED <<req, board, session, proc, info, cancels, nextSession>>
    /\ Step(c, <<>>)

\* The caller cancels the call at the await where it is suspended.
LegacyCancel(c) ==
    /\ pc[c] \in Awaits
    /\ cancels' = [cancels EXCEPT ![c] = @ \cup {pc[c]}]
    /\ IF pc[c] \in {"AcquiringSession", "ReleasingSession"}
       THEN /\ pc' = [pc EXCEPT ![c] = "Done"]
            /\ outcome' = [outcome EXCEPT ![c] = Cancelled]
            /\ UNCHANGED log
       ELSE Finally(c, Cancelled)
    /\ UNCHANGED <<req, board, session, proc, info, faults, nextSession>>
    /\ Step(c, <<>>)

\* engine.quit returns (line 50).
LegacyReleaseReturn(c) ==
    /\ pc[c] = "ReleasingSession"
    /\ proc[c] = "exited"
    /\ pc' = [pc EXCEPT ![c] = "Done"]
    /\ UNCHANGED <<req, board, session, proc, info, log, faults, cancels,
                   outcome, nextSession>>
    /\ Step(c, <<>>)

\* engine.quit raises an Exception (line 50, unguarded): it replaces the
\* pending result and leaves the handler, a 500 response.
LegacyReleaseFail(c) ==
    /\ pc[c] = "ReleasingSession"
    /\ faults' = [faults EXCEPT ![c] = @ \cup {"quit"}]
    /\ pc' = [pc EXCEPT ![c] = "Done"]
    /\ outcome' = [outcome EXCEPT ![c] = HttpError(500, "Internal Server Error")]
    /\ UNCHANGED <<req, board, session, proc, info, log, cancels, nextSession>>
    /\ Step(c, <<>>)

NextLegacy ==
    \E c \in Calls :
        \/ LegacyReceive(c)
        \/ LegacyPopenReturn(c)
        \/ LegacyPopenFail(c)
        \/ LegacyAnalyseReturn(c)
        \/ LegacyAnalyseFail(c)
        \/ LegacyPlayReturn(c)
        \/ LegacyPlayFail(c)
        \/ LegacyCancel(c)
        \/ LegacyReleaseReturn(c)
        \/ LegacyReleaseFail(c)
        \/ ProcessExits(c)

SpecLegacy == Init /\ [][NextLegacy]_vars

\* The scheduling of one call.  The event loop resumes a coroutine once the
\* operation it awaits has completed, a request that arrived is handled, and
\* the engine answers every command it was sent: configure, the searches
\* (they are bounded by the depth) and quit.  Nothing obliges a process that
\* was started to complete its handshake, and popen_uci is awaited without
\* a timeout (line 64), so no fairness is stated for PopenReturn and
\* PopenFail; nor for Cancel, which is the caller's choice.
Fairness ==
    \A c \in Calls :
        /\ WF_vars(Receive(c))
        /\ WF_vars(ConfigureReturn(c) \/ ConfigureFail(c))
        /\ WF_vars(AnalyseReturn(c) \/ AnalyseFail(c))
        /\ WF_vars(PlayReturn(c) \/ PlayFail(c))
        /\ WF_vars(ReleaseReturn(c) \/ ReleaseFail(c))

SpecLive == Init /\ [][Next]_vars /\ Fairness

\* ------------------------------------------------------ concurrent calls
\* Several calls of analyze_position in flight on the one event loop: each
\* is a coroutine of its own, with its own locals; the steps of different
\* calls interleave at the awaits.  The calls share nothing but the engine
\* executable, of which each popen_uci starts a new process.  To keep the
\* product of the calls small the requests and the engine's answers are
\* drawn from a few representatives.
ConcCalls == {1, 2}
ConcRequests ==
    {[fen |-> <<"normal", "w">>, depth |-> MinDepth, uci_elo |-> Some(MinElo)],
     [fen |-> <<"seven_ranks", "w">>, depth |-> MinDepth, uci_elo |-> None]}
ConcInfos ==
    {[score |-> Some(PovScore(Cp(0), "w")), pv |-> <<>>],
     [score |-> Some(PovScore(Cp(0), "w")), pv |-> <<"e2e4">>]}

InitConc ==
    /\ pc = [c \in ConcCalls |-> "Idle"]
    /\ req = [c \in ConcCalls |-> NoRequest]
    /\ board = [c \in ConcCalls |-> NoBoard]
    /\ session = [c \in ConcCalls |-> 0]
    /\ proc = [c \in ConcCalls |-> "none"]
    /\ info = [c \in ConcCalls |-> NoInfo]
    /\ log = [c \in ConcCalls |-> <<>>]
    /\ faults = [c \in ConcCalls |-> {}]
    /\ cancels = [c \in ConcCalls |-> {}]
    /\ outcome = [c \in ConcCalls |-> NoOutcome]
    /\ nextSession = 1
    /\ trace = [c \in ConcCalls |-> <<At("Idle", 0)>>]
    /\ Serving
    /\ PageBuilt
    /\ GameBuilt
    /\ PlayerBuilt

NextConc ==
    \E c \in ConcCalls :
        \/ Receive(c) /\ req'[c] \in ConcRequests
        \/ PopenReturn(c)
        \/ PopenFail(c)
        \/ ConfigureReturn(c)
        \/ ConfigureFail(c)
        \/ AnalyseReturn(c) /\ info'[c] \in ConcInfos
        \/ AnalyseFail(c)
        \/ PlayReturn(c) /\ outcome'[c].best_move = NoMove
        \/ PlayFail(c)
        \/ Cancel(c)
        \/ ReleaseReturn(c)
        \/ ReleaseFail(c)
        \/ ProcessExits(c)

SpecConc == InitConc /\ [][NextConc]_vars

\* ------------------------------------------------------ service startup
\* The service process from its start: the module is imported, which
\* resolves STOCKFISH_PATH (line 20); the server runs the startup handler
\* (lines 43-46) and accepts requests only when the handler returned; a
\* handler that raises ends the server.  The environment, the PATH search
\* and the file system are drawn at the start; shutil.which finds only a
\* file.
InitStartup ==
    /\ pc = [c \in Calls |-> "Idle"]
    /\ req = [c \in Calls |-> NoRequest]
    /\ board = [c \in Calls |-> NoBoard]
    /\ session = [c \in Calls |-> 0]
    /\ proc = [c \in Calls |-> "none"]
    /\ info = [c \in Calls |-> NoInfo]
    /\ log = [c \in Calls |-> <<>>]
    /\ faults = [c \in Calls |-> {}]
    /\ cancels = [c \in Calls |-> {}]
    /\ outcome = [c \in Calls |-> NoOutcome]
    /\ nextSession = 1
    /\ trace = [c \in Calls |-> <<At("Idle", 0)>>]
    /\ environ \in EnvValues
    /\ which \in WhichResults
    /\ fs \in [Paths -> FileKinds]
    /\ which # None => fs[which[1]] = "file"
    /\ STOCKFISH_PATH = None
    /\ server = "importing"
    /\ PageBuilt
    /\ GameBuilt
    /\ PlayerBuilt

\* STOCKFISH_PATH = resolve_stockfish_path() (line 20), on import.
ImportModule ==
    /\ server = "importing"
    /\ STOCKFISH_PATH' = Some(resolve_stockfish_path(environ, which))
    /\ server' = "starting"
    /\ UNCHANGED <<environ, which, fs, serviceVars, pageVars>>

\* startup_event (lines 43-46): RuntimeError when nothing exists at
\* STOCKFISH_PATH, which ends the server before it accepts a request.
startup_event ==
    /\ server = "starting"
    /\ server' = IF exists(fs, STOCKFISH_PATH[1]) THEN "serving" ELSE "failed"
    /\ UNCHANGED <<environ, which, fs, STOCKFISH_PATH, serviceVars,
                   pageVars>>

NextStartup ==
    \/ ImportModule
    \/ startup_event
    \/ \E c \in Calls :
        \/ server = "serving" /\ Receive(c) /\ req'[c] \in ConcRequests
        \/ PopenReturn(c)
        \/ PopenFail(c)
        \/ ConfigureReturn(c)
        \/ ConfigureFail(c)
        \/ AnalyseReturn(c) /\ info'[c] \in ConcInfos
        \/ AnalyseFail(c)
        \/ PlayReturn(c) /\ outcome'[c].best_move = NoMove
        \/ PlayFail(c)
        \/ Cancel(c)
        \/ ReleaseReturn(c)
        \/ ReleaseFail(c)
        \/ ProcessExits(c)

SpecStartup == InitStartup /\ [][NextStartup]_vars

\* ------------------------------------------------- the frontend self-play
\* The page of frontend/app/ui_app.py with its SelfPlayController
\* (frontend/app/selfplay.py; frontend/main.py lines 70-103 is the same
\* class).  A task runs self_play_loop; one action is one resumption of the
\* loop, from await to await.  The k-th task created is task k and the
\* Event made for it is Event k; Event 0 is the one made by __init__.  The
\* game is the number of moves pushed, and is over after GameLength moves.
\* What the engine answers is the environment's choice: an error (None from
\* analyze_and_update), a result without best_move, a move that is legal,
\* one that is not, or a string that is no UCI move.
ResKinds == {"error", "no_move", "legal", "illegal", "malformed"}
LoopStates == {"unborn", "created", "view_only_on", "analyzing", "last_move",
               "set_fen", "sleeping", "view_only_off", "done", "failed"}

\* task.done()
done(t) == loop[t] \in {"done", "failed"}
\* SelfPlayController.running (selfplay.py lines 11-13)
running == _task # 0 /\ ~done(_task)
\* state.game_board.is_game_over(claim_draw=True)
is_game_over == game_board >= GameLength

\* legal_now taking a move that was legal in the position asked about for
\* legal on the board as it is now.
legal_when_asked(r, asked) == r = "legal"

\* mv in state.game_board.legal_moves, for the move of a result of kind r
\* that answers a question about the position asked: the engine's legal
\* answer is a legal move of the position it was asked about, and of the
\* board only while the board is still at that position.
legal_now(r, asked) == r = "legal" /\ asked = game_board /\ ~is_game_over

\* The finally block of self_play_loop (lines 250-252) is entered: the
\* command cgSetViewOnly(false) is sent and the loop suspends in js.
LoopFinally(t) ==
    /\ loop' = [loop EXCEPT ![t] = "view_only_off"]
    /\ view_only' = FALSE
    /\ UNCHANGED task_fen

\* The head of the while loop (lines 229-235): leave when stop_event is set
\* or the game is over, else call analyze_and_update, which asks the engine
\* about state.game_board.fen() (lines 151, 159).
LoopHead(t) ==
    IF events[t] \/ is_game_over
    THEN LoopFinally(t)
    ELSE /\ loop' = [loop EXCEPT ![t] = "analyzing"]
         /\ task_fen' = [task_fen EXCEPT ![t] = game_board]
         /\ UNCHANGED view_only

\* start() without the test of self.running.
start_unguarded ==
    /\ Cardinality(created) < MaxTasks
    /\ LET t == Cardinality(created) + 1
       IN  /\ _stop' = t
           /\ _task' = t
           /\ created' = created \cup {t}
           /\ loop' = [loop EXCEPT ![t] = "created"]

\* SelfPlayController.start (selfplay.py lines 18-33): nothing when a task
\* is running; else a new Event and a new task running the loop with it.
start ==
    IF running
    THEN UNCHANGED <<_task, _stop, created, loop>>
    ELSE /\ Cardinality(created) < MaxTasks
         /\ LET t == Cardinality(created) + 1
            IN  /\ _stop' = t
                /\ _task' = t
                /\ created' = created \cup {t}
                /\ loop' = [loop EXCEPT ![t] = "created"]

\* SelfPlayController.stop (selfplay.py lines 15-16)
stop == events' = [events EXCEPT ![_stop] = TRUE]

\* A caller of the controller calls start(), whenever it likes.
CallStart ==
    /\ start
    /\ UNCHANGED <<events, res, game_board, view_only, late, notify>>
    /\ UNCHANGED <<task_fen, play, play_res, play_fen>>
    /\ UNCHANGED beyondFrontend

\* A caller of the controller calls stop(), whenever it likes.
CallStop ==
    /\ stop
    /\ UNCHANGED <<_task, _stop, created, loop>>
    /\ UNCHANGED <<res, game_board, view_only, late, notify>>
    /\ UNCHANGED <<task_fen, play, play_res, play_fen>>
    /\ UNCHANGED beyondFrontend

\* toggle_self_play (ui_app.py lines 254-266): the button stops a running
\* self-play and starts one when none runs, and notifies the user.
toggle_self_play ==
    /\ IF running
       THEN /\ stop
            /\ notify' = "stopping"
            /\ UNCHANGED <<_task, _stop, created, loop>>
       ELSE /\ start
            /\ notify' = "started"
            /\ UNCHANGED events
    /\ UNCHANGED <<res, game_board, view_only, late>>
    /\ UNCHANGED <<task_fen, play, play_res, play_fen>>
    /\ UNCHANGED beyondFrontend

\* The task starts to run: self_play_loop sends cgSetViewOnly(true) and
\* suspends in js (line 225).
LoopStart(t) ==
    /\ loop[t] = "created"
    /\ loop' = [loop EXCEPT ![t] = "view_only_on"]
    /\ view_only' = TRUE
    /\ UNCHANGED <<_task, _stop, events, res, game_board, created, late,
                   notify>>
    /\ UNCHANGED <<task_fen, play, play_res, play_fen>>
    /\ UNCHANGED beyondFrontend

\* js returns (line 225; it raises nothing, lines 24-30): the loop begins.
ViewOnlyOnReturn(t) ==
    /\ loop[t] = "view_only_on"
    /\ LoopHead(t)
    /\ UNCHANGED <<_task, _stop, events, res, game_board, created, late,
                   notify>>
    /\ UNCHANGED <<play, play_res, play_fen>>
    /\ UNCHANGED beyondFrontend

\* engine.analyze returns or raises inside analyze_and_update (lines
\* 158-177).  Without result or without best_move the loop breaks (lines
\* 236-238); with a best_move cgSetLastMove is sent (line 193).
AnalyzeReturn(t) ==
    /\ loop[t] = "analyzing"
    /\ \E r \in ResKinds :
        /\ res' = [res EXCEPT ![t] = r]
        /\ IF r \in {"error", "no_move"}
           THEN LoopFinally(t)
           ELSE /\ loop' = [loop EXCEPT ![t] = "last_move"]
                /\ UNCHANGED <<view_only, task_fen>>
    /\ UNCHANGED <<_task, _stop, events, game_board, created, late, notify>>
    /\ UNCHANGED <<play, play_res, play_fen>>
    /\ UNCHANGED beyondFrontend

\* js returns (line 193) and analyze_and_update with it: Move.from_uci
\* raises on a string that is no move (line 240), a move that is not legal
\* now breaks the loop (lines 241-243), a legal move is pushed and cgSetFen
\* is sent (lines 245-246).
LastMoveReturn(t) ==
    /\ loop[t] = "last_move"
    /\ IF legal_now(res[t], task_fen[t])
       THEN /\ game_board' = game_board + 1
            /\ late' = [late EXCEPT ![t] = IF events[t] THEN @ + 1 ELSE @]
            /\ loop' = [loop EXCEPT ![t] = "set_fen"]
            /\ UNCHANGED <<view_only, task_fen>>
       ELSE /\ LoopFinally(t)
            /\ UNCHANGED <<game_board, late>>
    /\ UNCHANGED <<_task, _stop, events, res, created, notify>>
    /\ UNCHANGED <<play, play_res, play_fen>>
    /\ UNCHANGED beyondFrontend

\* js returns (line 246); asyncio.sleep(0.6) (line 249).
SetFenReturn(t) ==
    /\ loop[t] = "set_fen"
    /\ loop' = [loop EXCEPT ![t] = "sleeping"]
    /\ UNCHANGED <<_task, _stop, events, res, game_board, view_only, created,
                   late, notify>>
    /\ UNCHANGED <<task_fen, play, play_res, play_fen>>
    /\ UNCHANGED beyondFrontend

\* SleepReturn going on with the next move without testing stop_event.
SleepReturnNoTest(t) ==
    /\ loop[t] = "sleeping"
    /\ IF is_game_over
       THEN LoopFinally(t)
       ELSE /\ loop' = [loop EXCEPT ![t] = "analyzing"]
            /\ task_fen' = [task_fen EXCEPT ![t] = game_board]
            /\ UNCHANGED view_only
    /\ UNCHANGED <<_task, _stop, events, res, game_board, created, late,
                   notify>>
    /\ UNCHANGED <<play, play_res, play_fen>>
    /\ UNCHANGED beyondFrontend

\* asyncio.sleep returns (line 249): back to the head of the loop.
SleepReturn(t) ==
    /\ loop[t] = "sleeping"
    /\ LoopHead(t)
    /\ UNCHANGED <<_task, _stop, events, res, game_board, created, late,
                   notify>>
    /\ UNCHANGED <<play, play_res, play_fen>>
    /\ UNCHANGED beyondFrontend

\* js returns (line 251): the loop has ended, with the exception of
\* Move.from_uci when that was raised.
ViewOnlyOffReturn(t) ==
    /\ loop[t] = "view_only_off"
    /\ loop' = [loop EXCEPT ![t] =
                   IF res[t] = "malformed" THEN "failed" ELSE "done"]
    /\ UNCHANGED <<_task, _stop, events, res, game_board, view_only, created,
                   late, notify>>
    /\ UNCHANGED <<task_fen, play, play_res, play_fen>>
    /\ UNCHANGED beyondFrontend

NextSelfPlay ==
    \/ CallStart
    \/ CallStop
    \/ toggle_self_play
    \/ \E t \in Tasks :
        \/ LoopStart(t)
        \/ ViewOnlyOnReturn(t)
        \/ AnalyzeReturn(t)
        \/ LastMoveReturn(t)
        \/ SetFenReturn(t)
        \/ SleepReturn(t)
        \/ ViewOnlyOffReturn(t)

SpecSelfPlay == Init /\ [][NextSelfPlay]_vars

\* Every await of the loop returns: run_javascript and the request to the
\* engine have timeouts, and the sleep ends.
FairnessSelfPlay ==
    \A t \in Tasks :
        /\ WF_vars(LoopStart(t))
        /\ WF_vars(ViewOnlyOnReturn(t))
        /\ WF_vars(AnalyzeReturn(t))
        /\ WF_vars(LastMoveReturn(t))
        /\ WF_vars(SetFenReturn(t))
        /\ WF_vars(SleepReturn(t))
        /\ WF_vars(ViewOnlyOffReturn(t))
SpecSelfPlayLive == Init /\ [][NextSelfPlay]_vars /\ FairnessSelfPlay

\* ------------------------------------------- the button "Zahrát tah"
\* play_one_best_move (ui_app.py lines 201-222), one click at a time, on the
\* page whose self-play button and tasks are those above.
\* The click: the handler returns with a warning when self-play is running
\* (lines 202-204), else it calls analyze_and_update and suspends in
\* engine.analyze (lines 207, 159) asking about the game position.
play_one_best_move ==
    /\ play = "idle"
    /\ IF running
       THEN /\ notify' = "self_play_running"
            /\ UNCHANGED <<play, play_fen>>
       ELSE /\ play' = "analyzing"
            /\ play_fen' = game_board
            /\ UNCHANGED notify
    /\ UNCHANGED <<task_fen, play_res>>
    /\ UNCHANGED frontendPlayFrame
    /\ UNCHANGED beyondFrontend

\* engine.analyze returns or raises inside analyze_and_update: without
\* result or best_move the handler returns (lines 208-209), with a
\* best_move cgSetLastMove is sent (line 193).
PlayOneAnalyzeReturn ==
    /\ play = "analyzing"
    /\ \E r \in ResKinds :
        /\ play_res' = r
        /\ play' = IF r \in {"error", "no_move"} THEN "idle" ELSE "last_move"
    /\ UNCHANGED <<task_fen, play_fen, notify>>
    /\ UNCHANGED frontendPlayFrame
    /\ UNCHANGED beyondFrontend

\* js returns (line 193) and analyze_and_update with it: a string that is
\* no move and a move that is not legal now end the handler with a
\* notification (lines 211-219); a legal move is pushed (line 216) and
\* cgSetFen is sent (line 221).
PlayOneLastMoveReturn ==
    /\ play = "last_move"
    /\ IF legal_now(play_res, play_fen)
       THEN /\ game_board' = game_board + 1
            /\ play' = "set_fen"
            /\ UNCHANGED notify
       ELSE /\ play' = "idle"
            /\ notify' = "no_move_played"
            /\ UNCHANGED game_board
    /\ UNCHANGED <<task_fen, play_res, play_fen>>
    /\ UNCHANGED <<_task, _stop, events, loop, res, view_only, created, late>>
    /\ UNCHANGED beyondFrontend

\* js returns (line 221): the move is logged and the handler returns.
PlayOneSetFenReturn ==
    /\ play = "set_fen"
    /\ play' = "idle"
    /\ UNCHANGED <<task_fen, play_res, play_fen, notify>>
    /\ UNCHANGED frontendPlayFrame
    /\ UNCHANGED beyondFrontend

NextFrontend ==
    \/ toggle_self_play
    \/ play_one_best_move
    \/ PlayOneAnalyzeReturn
    \/ PlayOneLastMoveReturn
    \/ PlayOneSetFenReturn
    \/ \E t \in Tasks :
        \/ LoopStart(t)
        \/ ViewOnlyOnReturn(t)
        \/ AnalyzeReturn(t)
        \/ LastMoveReturn(t)
        \/ SetFenReturn(t)
        \/ SleepReturn(t)
        \/ ViewOnlyOffReturn(t)

SpecFrontend == Init /\ [][NextFrontend]_vars

\* ------------------------------------------------- the game frontend page
\* The handlers of game_ui.py; one action is one resumption of a handler,
\* from await to await.  The k-th call of start_next_opponent that passes
\* its guards is simulation k.  What the engine answers and what the
\* outcome of the board is after a move are the environment's choice.
InFlight == {"view_only_on", "start_fen_js", "start_fen_sleep", "analyzing",
             "move_fen_js", "move_fen_sleep", "last_move", "sleeping",
             "view_only_off", "end_fen_js", "end_fen_sleep"}
\* The simulation loop (lines 364-411) of a call: from `try:` to `finally:`.
InLoop == {"analyzing", "move_fen_js", "move_fen_sleep", "last_move",
           "sleeping"}
\* The calls made so far that passed the guards.
started == {s \in Sims : sim[s].at # "unborn"}

\* on_board_change (lines 201-242) for a fen_update event with placement p:
\* ignored during a simulation or a programmatic change; a placement
\* against the rules or over the budget is reverted with revert_board
\* (lines 192-196), which suspends in _js; else it becomes the
\* editor_placement.
on_board_change(p) ==
    /\ IF sim_running \/ ignore_fen_events
       THEN UNCHANGED <<editor_placement, ignore_fen_events, setter>>
       ELSE IF \/ p.black > 0
               \/ p.far
               \/ count_K(p) > 1
               \/ money - total_spent(p, white_depth, white_time) < 0
            THEN /\ setter = "idle"
                 /\ ignore_fen_events' = TRUE
                 /\ setter' = "js"
                 /\ UNCHANGED editor_placement
            ELSE /\ editor_placement' = p
                 /\ UNCHANGED <<ignore_fen_events, setter>>
    /\ UNCHANGED <<current_level, money, white_depth, white_time, sim_running,
                   sim>>
    /\ UNCHANGED beyondGame

\* reset_board (lines 249-256): nothing during a simulation; else the
\* editor is emptied and set_board_fen (lines 185-190) suspends in _js.
reset_board ==
    /\ IF sim_running
       THEN UNCHANGED <<editor_placement, ignore_fen_events, setter>>
       ELSE /\ setter = "idle"
            /\ editor_placement' = EmptyPlacement
            /\ ignore_fen_events' = TRUE
            /\ setter' = "js"
    /\ UNCHANGED <<current_level, money, white_depth, white_time, sim_running,
                   sim>>
    /\ UNCHANGED beyondGame

\* _js returns in set_board_fen or revert_board (lines 187, 194);
\* asyncio.sleep(0.05).
SetterJsReturn ==
    /\ setter = "js"
    /\ setter' = "sleep"
    /\ UNCHANGED <<current_level, money, editor_placement, white_depth,
                   white_time, sim_running, ignore_fen_events, sim>>
    /\ UNCHANGED beyondGame

\* asyncio.sleep returns (lines 188-189, 195-196).
SetterSleepReturn ==
    /\ setter = "sleep"
    /\ setter' = "idle"
    /\ ignore_fen_events' = FALSE
    /\ UNCHANGED <<current_level, money, editor_placement, white_depth,
                   white_time, sim_running, sim>>
    /\ UNCHANGED beyondGame

\* adjust_depth (lines 258-268)
adjust_depth(delta) ==
    /\ IF sim_running
       THEN UNCHANGED white_depth
       ELSE IF delta > 0
            THEN IF white_depth < DepthCeiling /\ money_left >= DEPTH_COST
                 THEN white_depth' = white_depth + 1
                 ELSE UNCHANGED white_depth
            ELSE IF white_depth > BASE_ENGINE_DEPTH
                 THEN white_depth' = white_depth - 1
                 ELSE UNCHANGED white_depth
    /\ UNCHANGED <<current_level, money, editor_placement, white_time,
                   sim_running, ignore_fen_events, sim, setter>>
    /\ UNCHANGED beyondGame

\* adjust_time (lines 270-280)
adjust_time(delta) ==
    /\ IF sim_running
       THEN UNCHANGED white_time
       ELSE IF delta > 0
            THEN IF money_left >= TIME_COST
                 THEN white_time' = white_time + 1
                 ELSE UNCHANGED white_time
            ELSE IF white_time > BASE_ENGINE_TIME
                 THEN white_time' = white_time - 1
                 ELSE UNCHANGED white_time
    /\ UNCHANGED <<current_level, money, editor_placement, white_depth,
                   sim_running, ignore_fen_events, sim, setter>>
    /\ UNCHANGED beyondGame

\* do_restart (lines 282-295), from the dialog of the header's Restart
\* button (line 451) or of show_loss_dialog: it has no guard.
do_restart ==
    /\ current_level' = 1
    /\ money' = INITIAL_MONEY
    /\ white_depth' = BASE_ENGINE_DEPTH
    /\ white_time' = BASE_ENGINE_TIME
    /\ editor_placement' = EmptyPlacement
    /\ sim_running' = FALSE
    /\ ignore_fen_events' = FALSE
    /\ UNCHANGED <<sim, setter>>
    /\ UNCHANGED beyondGame

\* start_next_opponent up to its first await (lines 318-353): nothing
\* while sim_running; nothing but a notification without exactly one white
\* king, over the budget, or beyond the last level; else the board is
\* built, sim_running is set and cgSetViewOnly(true) is sent.
start_next_opponent ==
    /\ started # Sims
    /\ IF \/ sim_running
          \/ count_K(editor_placement) # 1
          \/ money_left < 0
          \/ current_level - 1 < 0
          \/ current_level - 1 >= Len(LEVELS)
       THEN UNCHANGED <<sim_running, sim>>
       ELSE /\ sim_running' = TRUE
            /\ \E o \in {"none", "draw"} :
                 sim' = [sim EXCEPT ![Cardinality(started) + 1] =
                           [NoSim EXCEPT !.at = "view_only_on",
                                         !.outcome = o,
                                         !.reward = LEVELS[current_level],
                                         !.built_from = editor_placement]]
    /\ UNCHANGED <<current_level, money, editor_placement, white_depth,
                   white_time, ignore_fen_events, setter>>
    /\ UNCHANGED beyondGame

\* _js returns (line 353); set_board_fen suspends in _js (lines 354, 187).
SimViewOnlyOnReturn(s) ==
    /\ sim[s].at = "view_only_on"
    /\ sim' = [sim EXCEPT ![s].at = "start_fen_js"]
    /\ ignore_fen_events' = TRUE
    /\ UNCHANGED <<current_level, money, editor_placement, white_depth,
                   white_time, sim_running, setter>>
    /\ UNCHANGED beyondGame

\* _js returns in set_board_fen: asyncio.sleep(0.05) (line 188), at the
\* start, after a move and at the end of a simulation.
SimFenJsReturn(s) ==
    /\ sim[s].at \in {"start_fen_js", "move_fen_js", "end_fen_js"}
    /\ sim' = [sim EXCEPT ![s].at =
                 CASE @ = "start_fen_js" -> "start_fen_sleep"
                   [] @ = "move_fen_js" -> "move_fen_sleep"
                   [] @ = "end_fen_js" -> "end_fen_sleep"]
    /\ UNCHANGED <<current_level, money, editor_placement, white_depth,
                   white_time, sim_running, ignore_fen_events, setter>>
    /\ UNCHANGED beyondGame

\* SimFinally paying the reward whatever the outcome of the board.
SimFinallyAlwaysRewards(s, l) ==
    /\ money' = money + l.reward
    /\ current_level' = current_level + 1
    /\ sim_running' = FALSE
    /\ sim' = [sim EXCEPT ![s] = [l EXCEPT !.at = "view_only_off"]]

\* The finally block (lines 413-437) is entered by the call with locals l:
\* the reward and the next level when White has won, sim_running is reset,
\* and cgSetViewOnly(false) is sent.
SimFinally(s, l) ==
    /\ IF l.outcome = "white"
       THEN /\ money' = money + l.reward
            /\ current_level' = current_level + 1
       ELSE UNCHANGED <<money, current_level>>
    /\ sim_running' = FALSE
    /\ sim' = [sim EXCEPT ![s] = [l EXCEPT !.at = "view_only_off"]]

\* The head of the while loop (lines 365-379) with locals l: leave at
\* MAX_PLIES or when the game is over, else ask the engine.
SimLoopHead(s, l) ==
    IF l.ply < MAX_PLIES /\ l.outcome = "none"
    THEN /\ sim' = [sim EXCEPT ![s] = [l EXCEPT !.at = "analyzing"]]
         /\ UNCHANGED <<money, current_level, sim_running>>
    ELSE SimFinally(s, l)

\* asyncio.sleep returns in the set_board_fen of line 354: the flag is
\* cleared, saved_placement is read (line 359) and the loop begins.
SimStartFenSleepReturn(s) ==
    /\ sim[s].at = "start_fen_sleep"
    /\ ignore_fen_events' = FALSE
    /\ SimLoopHead(s, [sim[s] EXCEPT !.saved_placement = editor_placement])
    /\ UNCHANGED <<editor_placement, white_depth, white_time, setter>>
    /\ UNCHANGED beyondGame

\* engine.analyze returns or raises (lines 378-400): a timeout, an error,
\* an absent and an illegal move break the loop; Move.from_uci raises on a
\* string that is no move; a legal move is pushed and set_board_fen
\* suspends in _js (lines 403, 187).
SimAnalyzeReturn(s) ==
    /\ sim[s].at = "analyzing"
    /\ \E r \in SimResKinds :
        IF r = "legal"
        THEN /\ \E o \in Outcomes :
                  sim' = [sim EXCEPT ![s] =
                            [@ EXCEPT !.res = r,
                                      !.pushed = @ + 1,
                                      !.outcome = o,
                                      !.at = "move_fen_js"]]
             /\ ignore_fen_events' = TRUE
             /\ UNCHANGED <<money, current_level, sim_running>>
        ELSE /\ SimFinally(s, [sim[s] EXCEPT !.res = r])
             /\ UNCHANGED ignore_fen_events
    /\ UNCHANGED <<editor_placement, white_depth, white_time, setter>>
    /\ UNCHANGED beyondGame

\* asyncio.sleep returns in the set_board_fen of line 403; cgSetLastMove is
\* sent (line 404).
SimMoveFenSleepReturn(s) ==
    /\ sim[s].at = "move_fen_sleep"
    /\ ignore_fen_events' = FALSE
    /\ sim' = [sim EXCEPT ![s].at = "last_move"]
    /\ UNCHANGED <<current_level, money, editor_placement, white_depth,
                   white_time, sim_running, setter>>
    /\ UNCHANGED beyondGame

\* _js returns (line 404): ply += 1 and asyncio.sleep(think_delay).
SimLastMoveReturn(s) ==
    /\ sim[s].at = "last_move"
    /\ sim' = [sim EXCEPT ![s] = [@ EXCEPT !.ply = @ + 1, !.at = "sleeping"]]
    /\ UNCHANGED <<current_level, money, editor_placement, white_depth,
                   white_time, sim_running, ignore_fen_events, setter>>
    /\ UNCHANGED beyondGame

\* asyncio.sleep returns (line 410): back to the head of the loop.
SimSleepReturn(s) ==
    /\ sim[s].at = "sleeping"
    /\ SimLoopHead(s, sim[s])
    /\ UNCHANGED <<editor_placement, white_depth, white_time,
                   ignore_fen_events, setter>>
    /\ UNCHANGED beyondGame

\* _js returns (line 437): editor_placement is restored (line 439) and
\* set_board_fen suspends in _js (lines 440, 187).
SimViewOnlyOffReturn(s) ==
    /\ sim[s].at = "view_only_off"
    /\ editor_placement' = sim[s].saved_placement
    /\ ignore_fen_events' = TRUE
    /\ sim' = [sim EXCEPT ![s].at = "end_fen_js"]
    /\ UNCHANGED <<current_level, money, white_depth, white_time, sim_running,
                   setter>>
    /\ UNCHANGED beyondGame

\* asyncio.sleep returns in the set_board_fen of line 440: the call ends,
\* with the exception of Move.from_uci when that was raised.
SimEndFenSleepReturn(s) ==
    /\ sim[s].at = "end_fen_sleep"
    /\ ignore_fen_events' = FALSE
    /\ sim' = [sim EXCEPT ![s].at =
                 IF sim[s].res = "malformed" THEN "failed" ELSE "done"]
    /\ UNCHANGED <<current_level, money, editor_placement, white_depth,
                   white_time, sim_running, setter>>
    /\ UNCHANGED beyondGame

\* The upgrades above the base, and the answers of the engine that let a
\* simulation go on or end it without an exception.
upgrades == (white_depth - BASE_ENGINE_DEPTH) + (white_time - BASE_ENGINE_TIME)
PlainResKinds == {"legal", "no_move"}

\* The page under every interleaving of its handlers.  The user buys at
\* most MaxUpgrades upgrades; a simulation starts from a position that is
\* not over, is decided after SimLength moves, and its engine answers with
\* a legal move or with none.
NextGame ==
    \/ \E p \in Setups : on_board_change(p)
    \/ reset_board
    \/ SetterJsReturn
    \/ SetterSleepReturn
    \/ \E delta \in {-1, 1} :
        \/ adjust_depth(delta) /\ upgrades' <= MaxUpgrades
        \/ adjust_time(delta) /\ upgrades' <= MaxUpgrades
    \/ do_restart
    \/ start_next_opponent /\ \A s \in Sims : sim'[s].outcome = "none"
    \/ \E s \in Sims :
        \/ SimViewOnlyOnReturn(s)
        \/ SimFenJsReturn(s)
        \/ SimStartFenSleepReturn(s)
        \/ SimAnalyzeReturn(s)
             /\ sim'[s].res \in PlainResKinds
             /\ (sim'[s].outcome \in {"white", "black"}
                    \/ (sim'[s].outcome = "none" /\ sim'[s].pushed < SimLength))
        \/ SimMoveFenSleepReturn(s)
        \/ SimLastMoveReturn(s)
        \/ SimSleepReturn(s)
        \/ SimViewOnlyOffReturn(s)
        \/ SimEndFenSleepReturn(s)

SpecGame == Init /\ [][NextGame]_vars

\* One simulation from its start to its end, with every answer of the
\* engine and every course of the game, while no other handler runs: the
\* user sets the board up and clicks "Dalsi souper".
NextSim ==
    \/ started = {} /\ \E p \in Setups : on_board_change(p)
    \/ started = {} /\ start_next_opponent
    \/ SimViewOnlyOnReturn(1)
    \/ SimFenJsReturn(1)
    \/ SimStartFenSleepReturn(1)
    \/ SimAnalyzeReturn(1)
    \/ SimMoveFenSleepReturn(1)
    \/ SimLastMoveReturn(1)
    \/ SimSleepReturn(1)
    \/ SimViewOnlyOffReturn(1)
    \/ SimEndFenSleepReturn(1)

\* Every await of a simulation returns: run_javascript and the request to
\* the engine have timeouts (_js lines 97-102, REQUEST_TIMEOUT_S line 111),
\* and the sleeps end.
FairnessSim ==
    /\ WF_vars(SimViewOnlyOnReturn(1))
    /\ WF_vars(SimFenJsReturn(1))
    /\ WF_vars(SimStartFenSleepReturn(1))
    /\ WF_vars(SimAnalyzeReturn(1))
    /\ WF_vars(SimMoveFenSleepReturn(1))
    /\ WF_vars(SimLastMoveReturn(1))
    /\ WF_vars(SimSleepReturn(1))
    /\ WF_vars(SimViewOnlyOffReturn(1))
    /\ WF_vars(SimEndFenSleepReturn(1))
SpecSimLive == Init /\ [][NextSim]_vars /\ FairnessSim

\* The two pages that play the engine's moves, each on its own: they are
\* separate programs, so one page runs while the other stays as built.  On
\* the frontend page the engine answers with a legal move, an illegal move
\* or none.
MoveResKinds == {"legal", "illegal", "no_move"}
NextPages ==
    \/ /\ GameBuilt
       /\ NextFrontend
       /\ play_res' \in MoveResKinds \cup {NoRes}
       /\ \A t \in Tasks : res'[t] \in MoveResKinds \cup {NoRes}
    \/ PageBuilt /\ NextSim

SpecPages == Init /\ [][NextPages]_vars

\* ----------------------------------------------- the player frontend page
\* start_simulation (player_frontend/main.py lines 65-150), one call at a
\* time.  player_depth of GameState is 1 and stays so here.

\* The evaluation after the loop (lines 117-150), with locals l: a win of
\* White pays the reward and goes to the next level if there is one; the
\* page is unlocked and the call ends.
PlayerEvaluate(l) ==
    /\ IF l.outcome = "white"
       THEN /\ player_money' =
                 player_money
                 + PlayerLevels[IF current_level_idx < Len(PlayerLevels)
                                THEN current_level_idx + 1
                                ELSE Len(PlayerLevels)]
            /\ current_level_idx' =
                 IF current_level_idx < Len(PlayerLevels) - 1
                 THEN current_level_idx + 1 ELSE current_level_idx
       ELSE UNCHANGED <<player_money, current_level_idx>>
    /\ in_simulation' = FALSE
    /\ psim' = [l EXCEPT !.at = "done"]

\* The head of the while loop (lines 88-98): leave when the game is over,
\* else sleep for wait_time, the page being locked (line 75).
PlayerLoopHead(l) ==
    IF l.outcome # "none"
    THEN PlayerEvaluate(l)
    ELSE /\ psim' = [l EXCEPT !.at = "sleeping"]
         /\ in_simulation' = TRUE
         /\ UNCHANGED <<player_money, current_level_idx>>

\* The click on the start button: an invalid setup is refused (lines
\* 69-72); else the page is locked, the board is merged and the loop begins
\* (lines 75-98).
start_simulation ==
    /\ psim.at \in {"idle", "done"}
    /\ psim.n < MaxPlayerSims
    /\ \E valid \in BOOLEAN :
        IF ~valid
        THEN UNCHANGED <<in_simulation, player_money, current_level_idx,
                         psim>>
        ELSE \E o \in {"none", "draw"} :
               PlayerLoopHead([NoPsim EXCEPT !.outcome = o,
                                             !.n = psim.n + 1])
    /\ UNCHANGED beyondPlayer

\* asyncio.sleep returns (line 98): engine_client.analyze is called (line
\* 101) and suspends in client.post.
PlayerSleepReturn ==
    /\ psim.at = "sleeping"
    /\ psim' = [psim EXCEPT !.at = "analyzing"]
    /\ UNCHANGED <<in_simulation, player_money, current_level_idx>>
    /\ UNCHANGED beyondPlayer

\* engine_client.analyze returns (lines 101-110): without best_move the
\* loop breaks; else the move is pushed and the loop goes on.  An exception
\* leaving analyze would leave start_simulation as well.
PlayerAnalyzeReturn ==
    /\ psim.at = "analyzing"
    /\ \E reply \in Replies :
        LET a == analyze(reply, 1)
            l == [psim EXCEPT !.reply = reply, !.result = a.value]
        IN  IF a.raised
            THEN /\ psim' = [l EXCEPT !.at = "failed"]
                 /\ UNCHANGED <<in_simulation, player_money,
                                current_level_idx>>
            ELSE IF a.value.best_move = NoMove
            THEN PlayerEvaluate(l)
            ELSE \E o \in Outcomes :
                   PlayerLoopHead([l EXCEPT !.pushed = @ + 1, !.outcome = o])
    /\ UNCHANGED beyondPlayer

\* A game is decided after GameLength moves.
NextPlayer ==
    \/ start_simulation
    \/ PlayerSleepReturn
    \/ PlayerAnalyzeReturn
         /\ (psim'.pushed < GameLength \/ psim'.outcome # "none")

SpecPlayer == Init /\ [][NextPlayer]_vars

TypeOK ==
    /\ pc \in [Calls -> PcValues]
    /\ \A c \in Calls :
        /\ req[c] \in Requests \cup {NoRequest}
        /\ proc[c] \in {"none", "running", "exited"}
        /\ outcome[c].kind \in {"none", "response", "error", "cancelled"}
        /\ faults[c] \subseteq {"popen", "configure", "analyse", "play", "quit"}
        /\ cancels[c] \subseteq Awaits

\* ----------------------------------------------------------- the claims
Acquired(c) == session[c] # 0
Delivered(c) == pc[c] = "Done"
\* A request the service must reject: a parameter out of range or a
\* position that does not parse.
InvalidParams(r) == r.depth < 1 \/ r.depth > 30
                    \/ (r.uci_elo # None /\ (r.uci_elo[1] < 1350 \/ r.uci_elo[1] > 2850))
Malformed(fen) == Len(fen) = 0 \/ fen[1] = "seven_ranks"
                  \/ (Len(fen) >= 2 /\ fen[2] \notin {"w", "b"})
SearchFaults(c) == faults[c] \cap {"analyse", "play"}

\* C1: a completed call that acquired an engine session acquired exactly
\* one and invoked engine.quit exactly once, whatever its outcome (success,
\* configuration failure, search fault, fallback fault, cancellation).
C1_ReleaseCountEqualsAcquireCount ==
    \A c \in Calls :
        /\ Acquired(c) => Count(log[c], "popen") = 1 /\ Count(log[c], "quit") <= 1
        /\ (Delivered(c) /\ Acquired(c)) => Count(log[c], "quit") = 1
        /\ ~Acquired(c) => Count(log[c], "quit") = 0
C1_Witness ==
    \E c \in Calls :
        /\ Delivered(c) /\ Acquired(c)
        /\ "configure" \in faults[c]
        /\ "FallbackSearching" \in cancels[c]
        /\ outcome[c].kind = "cancelled"

\* C2: a call of analyze_position whose FEN does not parse answers 400
\* Invalid FEN, and no request with such a FEN ever leads to an engine
\* operation: nothing is spawned, configured, searched or released.
C2_InvalidPositionNeverSpawns ==
    \A c \in Calls :
        (pc[c] # "Idle" /\ Malformed(req[c].fen)) =>
            /\ Delivered(c)
            /\ log[c] = <<>> /\ ~Acquired(c) /\ proc[c] = "none"
            /\ outcome[c].kind = "error"
            /\ outcome[c].status \in {400, 422}
            /\ ~InvalidParams(req[c]) /\ Len(req[c].fen) > 0 =>
                   outcome[c] = HttpError(400, "Invalid FEN")
C2_Witness ==
    \E c \in Calls :
        /\ Delivered(c)
        /\ req[c].fen = <<"seven_ranks", "w">>
        /\ outcome[c].status = 400
        /\ log[c] = <<>>

\* C3 (as claimed): when a call is Done, the engine process it created has
\* exited, also when engine.quit failed.  Stated for the calls that were
\* never cancelled; C4 is about those that were.
C3_NoProcessOutlivesCall ==
    \A c \in Calls :
        (Delivered(c) /\ Acquired(c) /\ cancels[c] = {}) => proc[c] = "exited"

\* C4 (as claimed): a call cancelled at a suspension point after it acquired
\* its session, and whose engine.quit did not fail, is Done only with its
\* engine process exited.
C4_CancelledCallLeaksNoProcess ==
    \A c \in Calls :
        (Delivered(c) /\ Acquired(c) /\ cancels[c] # {} /\ "quit" \notin faults[c])
            => proc[c] = "exited"

\* C5: a request whose depth is outside 1..30 is rejected with the 422
\* validation error, and no engine operation is ever issued for it.
C5_DepthOutOfRangeRejected ==
    \A c \in Calls :
        (pc[c] # "Idle" /\ (req[c].depth < 1 \/ req[c].depth > 30)) =>
            /\ Delivered(c)
            /\ outcome[c] = HttpError(422, "validation")
            /\ log[c] = <<>> /\ ~Acquired(c) /\ proc[c] = "none"
C5_Witness ==
    \E c \in Calls :
        /\ Delivered(c)
        /\ req[c].depth = 31
        /\ ParseBoard(req[c].fen).ok
        /\ outcome[c].status = 422

\* C6 (as claimed): on a position without legal moves the fallback search
\* engine.play is never issued.
C6_NoFallbackOnTerminalPosition ==
    \A c \in Calls : Terminal(board[c]) => Count(log[c], "play") = 0

\* C7: when engine.configure fails, the primary search is still issued with
\* the requested depth, and the call ends in a normal result, with the score
\* and the move of the search, unless the search itself faults or the call
\* is cancelled; the configuration failure alone never gives an error.
C7_ConfigureFailureIsIgnored ==
    \A c \in Calls :
        "configure" \in faults[c] =>
            /\ req[c].uci_elo # None
            /\ Len(log[c]) >= 3
            /\ log[c][2] = Op("configure", 0)
            /\ log[c][3] = Op("analyse", req[c].depth)
            /\ (Delivered(c) /\ SearchFaults(c) = {} /\ cancels[c] = {}) =>
                   /\ outcome[c].kind = "response"
                   /\ outcome[c].status = 200
                   /\ outcome[c].depth = req[c].depth
                   /\ info[c] \in EngineInfos(board[c])
                   /\ info[c].score # None => outcome[c].score # None
                   /\ Len(info[c].pv) > 0 => outcome[c].best_move = info[c].pv[1]
            /\ (Delivered(c) /\ outcome[c].kind = "error") => SearchFaults(c) # {}
C7_Witness ==
    \E c \in Calls :
        /\ Delivered(c)
        /\ "configure" \in faults[c]
        /\ outcome[c].status = 200
        /\ outcome[c].best_move # NoMove
        /\ outcome[c].score # None

C9_ForcedMateScoreIsLargeAndSigned ==
    \A c \in Calls :
        (Delivered(c) /\ outcome[c].kind = "response"
            /\ info[c].score # None /\ info[c].score[1].relative.t = "mate") =>
            LET pov == info[c].score[1]
                moverMates == pov.relative.v > 0
                whiteMates == (pov.turn = "w") = moverMates
            IN  /\ outcome[c].score # None
                /\ whiteMates => outcome[c].score[1] >= 100000 - MaxMateDist
                /\ ~whiteMates => outcome[c].score[1] <= -(100000 - MaxMateDist)

\* C10: the outcome classes are disjoint and complete.  A malformed position
\* or a parameter out of range gives a 4xx response and nothing else does; a
\* launch failure or a search fault gives a 5xx response (when the call is
\* not cancelled before it answers) and nothing else does; a 200 response
\* is given only when none of these occurred.
C10_OutcomeClasses ==
    \A c \in Calls :
        Delivered(c) =>
            LET bad == InvalidParams(req[c]) \/ Malformed(req[c].fen)
                fault == faults[c] \cap {"popen", "analyse", "play"} # {}
                o == outcome[c]
            IN  /\ o.kind \in {"response", "error", "cancelled"}
                /\ bad => (o.kind = "error" /\ o.status \in 400..499)
                /\ (fault /\ o.kind # "cancelled") =>
                       (o.kind = "error" /\ o.status \in 500..599)
                /\ o.kind = "error" =>
                       /\ o.status \in (400..499) \cup (500..599)
                       /\ o.status \in 400..499 => bad
                       /\ o.status \in 500..599 => (fault /\ ~bad)
                /\ o.kind = "response" => (o.status = 200 /\ ~bad /\ ~fault)
C10_Witness ==
    \E c \in Calls :
        /\ Delivered(c)
        /\ "play" \in faults[c]
        /\ outcome[c].kind = "error" /\ outcome[c].status = 500

\* The error a caller receives: the status, the detail, and for a 422 the
\* fields its body names (FastAPI lists the fields pydantic rejected).
ErrorBody(c) ==
    [status |-> outcome[c].status, detail |-> outcome[c].detail,
     loc |-> IF outcome[c].status = 422 THEN ValidationErrors(req[c]) ELSE {}]
\* The kinds of failure a caller reads off the returned error alone.
ReportedKinds(e) ==
    CASE e.status = 400 /\ e.detail = "Invalid FEN" -> {"InvalidPosition"}
      [] e.status = 422 ->
            (IF "fen" \in e.loc THEN {"InvalidPosition"} ELSE {})
            \cup (IF e.loc \cap {"depth", "uci_elo"} # {}
                  THEN {"InvalidParams"} ELSE {})
      [] e.status = 500 /\ e.detail = "Failed to start Stockfish" ->
            {"EngineUnavailable"}
      [] e.status = 500 -> {"EngineFault"}
      [] OTHER -> {}
\* The kinds of failure that stopped a call: the request validation (a blank
\* position, a parameter out of range), else the parse of the position, else
\* the launch of the engine, else a search.
FailureKinds(c) ==
    IF Len(req[c].fen) = 0 \/ InvalidParams(req[c])
    THEN (IF Len(req[c].fen) = 0 THEN {"InvalidPosition"} ELSE {})
         \cup (IF InvalidParams(req[c]) THEN {"InvalidParams"} ELSE {})
    ELSE IF Malformed(req[c].fen) THEN {"InvalidPosition"}
    ELSE IF "popen" \in faults[c] THEN {"EngineUnavailable"}
    ELSE IF SearchFaults(c) # {} THEN {"EngineFault"}
    ELSE {}

\* C11: the error a call returns tells the kind of its failure: invalid
\* position (400 Invalid FEN, or 422 naming fen), invalid parameters (422
\* naming depth or uci_elo), engine unavailable (500 Failed to start
\* Stockfish), engine fault (500 with the fault's text); and a call whose
\* failure is of one of these kinds returns an error unless it is cancelled.
C11_ErrorKindsDistinguishable ==
    \A c \in Calls :
        Delivered(c) =>
            /\ outcome[c].kind = "error" =>
                   /\ FailureKinds(c) # {}
                   /\ ReportedKinds(ErrorBody(c)) = FailureKinds(c)
            /\ (FailureKinds(c) # {} /\ outcome[c].kind # "cancelled") =>
                   outcome[c].kind = "error"
C11_Witness ==
    \E c \in Calls :
        /\ Delivered(c)
        /\ "popen" \in faults[c]
        /\ ReportedKinds(ErrorBody(c)) = {"EngineUnavailable"}

C13_LaunchFailureIsEngineUnavailable ==
    \A c \in Calls :
        "popen" \in faults[c] =>
            /\ Delivered(c)
            /\ outcome[c] = HttpError(500, "Failed to start Stockfish")
            /\ ~Acquired(c) /\ proc[c] = "none"
            /\ log[c] = <<Op("popen", 0)>>
            /\ Count(log[c], "quit") = 0
C13_Witness ==
    \E c \in Calls :
        /\ Delivered(c)
        /\ "popen" \in faults[c]
        /\ req[c].uci_elo # None
        /\ outcome[c].status = 500

\* C15: a call that acquired a session becomes Done only from
\* ReleasingSession, with engine.quit the last operation it issued: the
\* release comes before the response or the error is delivered.
C15_ReleaseBeforeDelivery ==
    [][\A c \in Calls :
          (pc[c] # "Done" /\ pc'[c] = "Done" /\ Acquired(c)) =>
              /\ pc[c] = "ReleasingSession"
              /\ Count(log[c], "quit") = 1
              /\ log[c][Len(log[c])] = Op("quit", 0)
              /\ log'[c] = log[c]]_vars
C15_Witness ==
    \E c \in Calls :
        /\ Delivered(c)
        /\ "play" \in faults[c]
        /\ outcome[c] = HttpError(500, "engine fault")
        /\ log[c][Len(log[c])] = Op("quit", 0)

\* C20: every search issued, primary (analyse) and fallback (play), carries
\* the depth of the request, which is in 1..30.
C20_SearchesAreDepthBounded ==
    \A c \in Calls :
        \A i \in 1..Len(log[c]) :
            log[c][i].op \in {"analyse", "play"} =>
                /\ log[c][i].depth = req[c].depth
                /\ log[c][i].depth \in 1..30
C20_Witness ==
    \E c \in Calls :
        /\ Count(log[c], "analyse") = 1
        /\ Count(log[c], "play") = 1
        /\ Count(log[c], "configure") = 1
        /\ req[c].depth = 30

\* The order of the states as spec 4.1 gives it, the fallback search before
\* the extraction.
ClaimedRank(st) ==
    CASE st = "Idle" -> 1
      [] st = "Validating" -> 2
      [] st = "AcquiringSession" -> 3
      [] st = "Configuring" -> 4
      [] st = "Searching" -> 5
      [] st = "FallbackSearching" -> 6
      [] st = "Extracting" -> 7
      [] st = "ReleasingSession" -> 8
      [] st = "Done" -> 9
      [] OTHER -> 0
\* The same order with the extraction before the fallback search.
ExtractFirstRank(st) ==
    CASE st = "Extracting" -> 6
      [] st = "FallbackSearching" -> 7
      [] OTHER -> ClaimedRank(st)
\* Configure is issued before analyse, analyse before play, and quit last.
OperationsInOrder(l) ==
    \A i, j \in 1..Len(l) :
        i < j =>
            /\ l[i].op # "quit"
            /\ l[j].op # "popen"
            /\ l[j].op = "configure" => l[i].op = "popen"
            /\ l[j].op = "analyse" => l[i].op \in {"popen", "configure"}

\* C16 (as claimed): the states a call goes through are in the order Idle,
\* Validating, AcquiringSession, Configuring, Searching, FallbackSearching,
\* Extracting, ReleasingSession, Done, none twice; configure is never issued
\* after the search, and quit is the last engine operation.
C16_StatesInClaimedOrder ==
    \A c \in Calls :
        /\ \A i, j \in 1..Len(trace[c]) :
              i < j => /\ ClaimedRank(trace[c][i].state) > 0
                       /\ ClaimedRank(trace[c][i].state)
                              < ClaimedRank(trace[c][j].state)
        /\ OperationsInOrder(log[c])
\* C16 (amended): the states a call goes through are in the order Idle,
\* Validating, AcquiringSession, Configuring, Searching, Extracting,
\* FallbackSearching, ReleasingSession, Done, none twice: the score and the
\* principal line are extracted before the fallback search, which is issued
\* because the extraction found no move; configure is never issued after the
\* search, and quit is the last engine operation.
C16_StatesInOrderExtractionFirst ==
    \A c \in Calls :
        /\ \A i, j \in 1..Len(trace[c]) :
              i < j => /\ ExtractFirstRank(trace[c][i].state) > 0
                       /\ ExtractFirstRank(trace[c][i].state)
                              < ExtractFirstRank(trace[c][j].state)
        /\ OperationsInOrder(log[c])
C16_Witness ==
    \E c \in Calls :
        /\ Delivered(c)
        /\ [i \in 1..Len(trace[c]) |-> trace[c][i].state] =
               <<"Idle", "Validating", "AcquiringSession", "Configuring",
                 "Searching", "Extracting", "FallbackSearching",
                 "ReleasingSession", "Done">>

\* C14 (as claimed): a call that waits for the engine to start eventually
\* reaches Done, also when the handshake never completes.
C14_AcquisitionIsBounded ==
    \A c \in Calls : (pc[c] = "AcquiringSession") ~> (pc[c] = "Done")
\* Once the engine is acquired the call does reach Done.
AcquiredCallCompletes ==
    \A c \in Calls : (pc[c] \in EngineStates) ~> (pc[c] = "Done")

\* The locals of call c: everything analyze_position reads or writes on
\* behalf of c.
CallState(c) ==
    <<pc[c], req[c], board[c], session[c], info[c], log[c], faults[c],
      cancels[c], outcome[c], trace[c]>>

\* C17: from each state a call is in after popen_uci succeeded,
\* ReleasingSession is reachable: suspended in Configuring, Searching or
\* FallbackSearching a step into ReleasingSession is enabled, and
\* Extracting is left to FallbackSearching or straight to
\* ReleasingSession.  Done is terminal: a call that is Done changes
\* nothing any more, so it issues no further engine command, and the
\* handle a call acquires is one no call has held before.
C17_ReleaseReachableDoneTerminal ==
    /\ [](\A c \in ConcCalls :
            /\ pc[c] \in {"Configuring", "Searching", "FallbackSearching"}
                  => ENABLED (NextConc /\ pc'[c] = "ReleasingSession")
            /\ \A i \in 1..Len(trace[c]) :
                  trace[c][i].state = "Extracting"
                      => /\ i < Len(trace[c])
                         /\ trace[c][i + 1].state
                                \in {"FallbackSearching", "ReleasingSession"})
    /\ [][\A c \in ConcCalls :
            /\ pc[c] = "Done" => CallState(c)' = CallState(c)
            /\ session'[c] # session[c]
                  => \A d \in ConcCalls : session'[c] > session[d]]_vars
C17_Witness ==
    /\ pc[1] = "Done" /\ session[1] # 0 /\ Count(log[1], "quit") = 1
    /\ pc[2] \in EngineStates /\ session[2] > session[1]

\* C18: every engine session is owned by exactly one call: two calls
\* never hold the same handle, every state in which a call drives an
\* engine names the call's own handle, and a step changes the locals and
\* the engine process of one call only, so nothing one call writes is
\* seen by another.
C18_SessionsAreExclusive ==
    /\ [](\A c \in ConcCalls :
            /\ \A d \in ConcCalls \ {c} :
                  session[c] # 0 => session[c] # session[d]
            /\ \A i \in 1..Len(trace[c]) :
                  trace[c][i].engine \in {0, session[c]})
    /\ [][\A c \in ConcCalls : \A d \in ConcCalls \ {c} :
            (CallState(c)' # CallState(c) \/ proc'[c] # proc[c])
                => (CallState(d)' = CallState(d) /\ proc'[d] = proc[d])]_vars
C18_Witness ==
    /\ \A c \in ConcCalls : pc[c] \in EngineStates /\ proc[c] = "running"
    /\ session[1] # session[2]
    /\ pc[1] # pc[2]

\* C19: no call waits for another call's engine: whatever the other calls
\* are doing, a call suspended at an await can take each step its own
\* state allows: the failure of the awaited operation and the
\* cancellation always, the return of an engine command while the call's
\* own engine process runs, the return of quit once it has exited.
C19_NoCallBlocksAnother ==
    \A c \in ConcCalls :
        /\ pc[c] = "Idle" => ENABLED Receive(c)
        /\ pc[c] = "AcquiringSession"
              => ENABLED PopenReturn(c) /\ ENABLED PopenFail(c)
        /\ pc[c] = "Configuring"
              => /\ ENABLED ConfigureFail(c)
                 /\ proc[c] = "running" => ENABLED ConfigureReturn(c)
        /\ pc[c] = "Searching"
              => /\ ENABLED AnalyseFail(c)
                 /\ proc[c] = "running" => ENABLED AnalyseReturn(c)
        /\ pc[c] = "FallbackSearching"
              => /\ ENABLED PlayFail(c)
                 /\ proc[c] = "running" => ENABLED PlayReturn(c)
        /\ pc[c] = "ReleasingSession"
              => /\ ENABLED ReleaseFail(c)
                 /\ proc[c] = "exited" => ENABLED ReleaseReturn(c)
        /\ pc[c] \in Awaits => ENABLED Cancel(c)
C19_Witness ==
    /\ \A c \in ConcCalls : pc[c] = "Searching" /\ proc[c] = "running"
    /\ session[1] # session[2]

\* The call went through the state st.
Visited(c, st) == \E i \in 1..Len(trace[c]) : trace[c][i].state = st
\* The call returned an AnalysisResponse.
Succeeded(c) == Delivered(c) /\ outcome[c].kind = "response"

\* C21: engine.play is issued at most once per call, and only after
\* engine.analyse returned an info without principal line; when the
\* principal line is not empty no engine.play is issued and the best move
\* of the response is the line's first move.
C21_FallbackOnceAndOnlyWithoutLine ==
    \A c \in Calls :
        /\ Count(log[c], "play") <= 1
        /\ Count(log[c], "play") = 1
              => Visited(c, "Extracting") /\ info[c].pv = <<>>
        /\ (Visited(c, "Extracting") /\ info[c].pv # <<>>)
              => /\ Count(log[c], "play") = 0
                 /\ outcome[c].kind = "response"
                       => outcome[c].best_move = info[c].pv[1]
C21_Witness ==
    \E c \in Calls :
        /\ Succeeded(c)
        /\ Len(info[c].pv) = 2 /\ info[c].pv[1] # info[c].pv[2]
        /\ outcome[c].best_move = info[c].pv[1]
        /\ Count(log[c], "play") = 0

\* C22: a response given after the fallback search carries the score
\* extracted from the info of engine.analyse (None when the info had no
\* score) and the depth of the request; engine.play gives only the move.
C22_FallbackKeepsScoreAndDepth ==
    \A c \in Calls :
        (Count(log[c], "play") = 1 /\ outcome[c].kind = "response")
            => /\ outcome[c].score = ExtractScore(info[c])
               /\ info[c].score = None => outcome[c].score = None
               /\ outcome[c].depth = req[c].depth
               /\ outcome[c].best_move \in EnginePlays(board[c])
C22_Witness ==
    \E c \in Calls :
        /\ Succeeded(c)
        /\ Count(log[c], "play") = 1
        /\ outcome[c].best_move # NoMove
        /\ info[c].score = Some(PovScore(Cp(1), "b"))
        /\ outcome[c].score = Some(-1)

\* C23: a call on a position without legal moves, with no engine fault
\* and no cancellation, ends in a response, not an error: the best move
\* is absent, the score tells the outcome (the mate sentinel against the
\* mated side, 0 for a stalemate), and engine.quit was issued once.
C23_TerminalPositionIsSuccess ==
    \A c \in Calls :
        (Delivered(c) /\ Acquired(c) /\ Terminal(board[c])
            /\ faults[c] \subseteq {"configure", "quit"} /\ cancels[c] = {})
            => /\ outcome[c].kind = "response"
               /\ outcome[c].best_move = NoMove
               /\ outcome[c].score =
                     (IF board[c].kind = "stalemate" THEN Some(0)
                      ELSE IF board[c].turn = "w" THEN Some(-MateScore)
                      ELSE Some(MateScore))
               /\ Count(log[c], "quit") = 1
C23_Witness ==
    \E c \in Calls :
        /\ Succeeded(c)
        /\ board[c].kind = "checkmate" /\ board[c].turn = "b"
        /\ outcome[c].best_move = NoMove
        /\ outcome[c].score = Some(MateScore)
        /\ proc[c] = "exited"

\* C24: the depth of every response is the depth of the request, and it
\* is the depth given to every search the call issued.
C24_DepthUsedIsRequestedDepth ==
    \A c \in Calls :
        outcome[c].kind = "response"
            => /\ outcome[c].depth = req[c].depth
               /\ \A i \in 1..Len(log[c]) :
                     log[c][i].op \in {"analyse", "play"}
                         => log[c][i].depth = outcome[c].depth
C24_Witness ==
    \E c \in Calls :
        /\ Succeeded(c)
        /\ req[c].depth = 1 /\ outcome[c].depth = 1
        /\ board[c].kind = "normal"
        /\ outcome[c].best_move # NoMove
        /\ outcome[c].score = Some(0)
        /\ Count(log[c], "play") = 0

\* C25 (as claimed): in the r-chess-engine-service handler a request whose
\* FEN does not parse never starts an engine process and is answered with
\* a 4xx status.
C25_LegacyValidatesBeforeSpawn ==
    \A c \in Calls :
        (pc[c] # "Idle" /\ ~ParseBoard(req[c].fen).ok)
            => /\ Count(log[c], "popen") = 0
               /\ ~Acquired(c)
               /\ (Delivered(c) /\ outcome[c].kind = "error")
                     => outcome[c].status \in 400..499

\* The positions in the log at which the operation was issued.
Positions(l, name) == {i \in 1..Len(l) : l[i].op = name}

\* C27: engine.configure is issued if and only if the call acquired an
\* engine and its request carries uci_elo; it is issued at most once, and
\* before engine.analyse.  A request without uci_elo sends no configure.
C27_ConfigureIffStrengthRequested ==
    \A c \in Calls :
        /\ Count(log[c], "configure") <= 1
        /\ Count(log[c], "configure") = 1
              <=> (Acquired(c) /\ req[c].uci_elo # None)
        /\ \A i \in Positions(log[c], "configure") :
              \A j \in Positions(log[c], "analyse") \cup Positions(log[c], "play") :
                  i < j
C27_Witness ==
    \E c \in Calls :
        /\ Succeeded(c)
        /\ req[c].uci_elo = Some(MinElo)
        /\ Positions(log[c], "configure") = {2}
        /\ Positions(log[c], "analyse") = {3}
        /\ faults[c] = {}

\* C28: a request whose uci_elo lies outside 1350..2850 is answered with a
\* 4xx status and starts no engine; a request without uci_elo is not
\* rejected for its strength value.
C28_EloOutOfRangeRejected ==
    \A c \in Calls :
        /\ (pc[c] # "Idle" /\ req[c].uci_elo # None
               /\ (req[c].uci_elo[1] < 1350 \/ req[c].uci_elo[1] > 2850))
              => /\ Delivered(c) /\ outcome[c].kind = "error"
                 /\ outcome[c].status \in 400..499
                 /\ log[c] = <<>> /\ ~Acquired(c) /\ proc[c] = "none"
        /\ (pc[c] # "Idle" /\ req[c].uci_elo = None
               /\ req[c].depth \in 1..30 /\ ~Malformed(req[c].fen))
              => /\ Count(log[c], "popen") = 1
                 /\ ~(outcome[c].kind = "error" /\ outcome[c].status \in 400..499)
C28_Witness ==
    \E c \in Calls :
        /\ Delivered(c)
        /\ req[c].uci_elo = Some(MaxElo + 1)
        /\ req[c].depth = MinDepth /\ ParseBoard(req[c].fen).ok
        /\ outcome[c] = HttpError(422, "validation")
        /\ log[c] = <<>>

\* C26: once the module is imported STOCKFISH_PATH is the value of the
\* environment variable when that is set and not empty, and else what the
\* search of PATH finds or, when it finds nothing, the default path; the
\* startup fails exactly when nothing exists at STOCKFISH_PATH, and a
\* server that is not serving has received no request and started no
\* engine.
C26_PathResolvedAndCheckedAtStartup ==
    /\ server # "importing" =>
          /\ (environ # None /\ environ # Some(""))
                => STOCKFISH_PATH = environ
          /\ (environ = None \/ environ = Some(""))
                => STOCKFISH_PATH = (IF which # None THEN which
                                     ELSE Some("/usr/games/stockfish"))
    /\ server \in {"serving", "failed"} =>
          (server = "failed" <=> fs[STOCKFISH_PATH[1]] = "absent")
    /\ server # "serving" =>
          \A c \in Calls : pc[c] = "Idle" /\ log[c] = <<>> /\ proc[c] = "none"
C26_Witness ==
    /\ server = "failed"
    /\ environ = Some(OverridePath) /\ fs[OverridePath] = "absent"
    /\ which = Some(WhichPath) /\ fs[WhichPath] = "file"
    /\ STOCKFISH_PATH = Some(OverridePath)

\* The tasks that were created and have not ended.
Live == {t \in Tasks : loop[t] \notin {"unborn", "done", "failed"}}

\* C29: whatever start() and stop() calls were made, at most one task is
\* alive, and it is the controller's _task; a start() called while a task
\* is running changes nothing, and no step taken while a task is running
\* replaces the task or its Event or creates a task.
C29_SingleRunningTask ==
    /\ [](/\ Cardinality(Live) <= 1
          /\ Live \subseteq {_task}
          /\ running => _stop = _task)
    /\ [][(running /\ CallStart)
             => UNCHANGED <<_task, _stop, created, loop, events>>]_vars
    /\ [][running
             => (_task' = _task /\ _stop' = _stop /\ created' = created)]_vars
C29_Witness ==
    /\ running /\ _task = 2 /\ loop[2] = "analyzing"
    /\ loop[1] = "done" /\ events[1] /\ ~events[2]
    /\ ~ENABLED (CallStart /\ created' # created)

\* C30: a loop whose stop_event is set ends; it pushes at most one move
\* after the event was set; and when no loop is between its first and its
\* last command the board is not in view-only mode, however the loop was
\* left.
C30_StoppedLoopTerminates ==
    /\ \A t \in Tasks : (t \in Live /\ events[t]) ~> done(t)
    /\ [](\A t \in Tasks : late[t] <= 1)
    /\ [](view_only
            => \E t \in Tasks :
                  loop[t] \in {"view_only_on", "analyzing", "last_move",
                               "set_fen", "sleeping"})
C30_Witness ==
    /\ loop[1] = "done" /\ events[1]
    /\ late[1] = 1 /\ game_board = 1
    /\ ~view_only

\* C31: while a self-play task is running, play_one_best_move never pushes a
\* move onto the game board, also when self-play was started while the
\* handler was suspended awaiting the engine: every step in which the
\* handler pushes is taken with self_play.running false.
C31_PlayOneNeverPushesDuringSelfPlay ==
    [][(play = "last_move" /\ play' = "set_fen" /\ game_board' # game_board)
           => ~running]_vars

\* C33: in game_ui at most one simulation loop is in flight at any time,
\* and sim_running is true for as long as a simulation loop is in flight,
\* whatever the other handlers (do_restart among them) do meanwhile.
C33_OneLoopAndSimRunningThroughout ==
    /\ Cardinality({s \in Sims : sim[s].at \in InLoop}) <= 1
    /\ \A s \in Sims : sim[s].at \in InLoop => sim_running

\* C34: in game_ui, after any sequence of UI actions, money_left() is never
\* negative and white_depth stays within BASE_ENGINE_DEPTH..30.
C34_BudgetInvariant ==
    /\ money_left >= 0
    /\ white_depth \in BASE_ENGINE_DEPTH..DepthCeiling

\* C35: in game_ui a simulation leaves the player's setup unchanged: a
\* fen_update event received while sim_running or ignore_fen_events is set
\* does not alter editor_placement; while a simulation loop is in flight
\* nothing but a restart changes white_depth or white_time; and the
\* placement restored when the simulation ends is the one the simulation
\* was started with.
C35_SimulationLeavesSetupUnchanged ==
    [][/\ ((sim_running \/ ignore_fen_events)
              /\ \E p \in Setups : on_board_change(p))
          => editor_placement' = editor_placement
       /\ ((\E s \in Sims : sim[s].at \in InLoop) /\ ~do_restart)
          => (white_depth' = white_depth /\ white_time' = white_time)
       /\ \A s \in Sims :
            (sim[s].at = "view_only_off" /\ sim'[s].at = "end_fen_js")
            => editor_placement' = sim[s].built_from]_vars

\* C36: in game_ui every simulation terminates; its loop makes at most
\* MAX_PLIES iterations; a loop that ends before MAX_PLIES ends because the
\* game is over or the engine timed out, failed, or answered with no move
\* or with a move that cannot be played; and the level and the money change
\* only when the board's outcome is a win for White, by one level and the
\* level's reward.
C36_SimulationTerminatesAndRewardsWins ==
    /\ (sim[1].at \in InFlight) ~> (sim[1].at \in {"done", "failed"})
    /\ [](sim[1].ply <= MAX_PLIES /\ sim[1].pushed <= MAX_PLIES)
    /\ [][(sim[1].at \in InFlight /\ sim'[1].at = "view_only_off"
              /\ sim[1].at # "view_only_off")
           => \/ sim'[1].ply = MAX_PLIES
              \/ sim'[1].outcome # "none"
              \/ sim'[1].res \in {"timeout", "error", "no_move", "illegal",
                                  "malformed"}]_vars
    /\ [][(current_level' # current_level \/ money' # money)
           => /\ sim[1].at # "view_only_off"
              /\ sim'[1].at = "view_only_off"
              /\ sim'[1].outcome = "white"
              /\ current_level' = current_level + 1
              /\ money' = money + LEVELS[current_level]]_vars

\* A simulation has ended at the cut-off: MAX_PLIES moves were played and
\* the game is not over.
C36_Witness ==
    /\ sim[1].at = "done"
    /\ sim[1].ply = MAX_PLIES
    /\ sim[1].outcome = "none"

\* C32: in the frontend and in the game frontend a move returned by the
\* engine is pushed onto the board only if it is legal in the position the
\* board has at the moment of the push, and an illegal or absent move ends
\* the loop without changing the board.
C32_PushedOnlyIfLegalAtThePush ==
    [][/\ game_board' # game_board
          => /\ game_board' = game_board + 1
             /\ game_board < GameLength
             /\ \/ \E t \in Tasks :
                     /\ loop[t] = "last_move" /\ loop'[t] = "set_fen"
                     /\ res[t] = "legal" /\ task_fen[t] = game_board
                \/ /\ play = "last_move" /\ play' = "set_fen"
                   /\ play_res = "legal" /\ play_fen = game_board
       /\ \A t \in Tasks :
            \/ loop[t] = "analyzing" /\ loop'[t] # "analyzing"
                 /\ res'[t] \in {"error", "no_move"}
            \/ loop[t] = "last_move" /\ loop'[t] # "last_move"
                 /\ ~(res[t] = "legal" /\ task_fen[t] = game_board)
            => loop'[t] = "view_only_off" /\ game_board' = game_board
       /\ \A s \in Sims :
            /\ sim'[s].pushed # sim[s].pushed
               => /\ sim[s].at = "analyzing" /\ sim'[s].res = "legal"
                  /\ sim[s].outcome = "none"
                  /\ sim'[s].pushed = sim[s].pushed + 1
            /\ (sim[s].at = "analyzing" /\ sim'[s].at # "analyzing"
                  /\ sim'[s].res \in {"no_move", "illegal", "malformed"})
               => /\ sim'[s].at = "view_only_off"
                  /\ sim'[s].pushed = sim[s].pushed]_vars

\* In the frontend an answer computed for an earlier position has ended the
\* self-play loop, the board having moved on meanwhile.
C32_Witness ==
    \E t \in Tasks :
        /\ loop[t] = "view_only_off"
        /\ res[t] = "legal"
        /\ ~events[t]
        /\ task_fen[t] < game_board
        /\ game_board < GameLength

====
